---- MODULE Spec2Model ----
(***************************************************************************)
(* A model of the i18n-copilot translation pipeline:                       *)
(*   - the key-path helpers of the parser and the diff detector,           *)
(*   - TranslationOrchestrator (processFileChanges, processLanguagePair,   *)
(*     processBatch, translateWithRetry, stop),                            *)
(*   - AutoTranslator (translateFile, updateTargetFiles),                  *)
(*   - TranslationWatcher (start, stop, debounce timers).                  *)
(*                                                                         *)
(* A JavaScript string that is used as a key path is represented by the    *)
(* sequence of its '.'-separated segments ("a.b" is <<"a","b">>, "" is     *)
(* <<"">>), so that split('.') and join('.') are exact on it.  An object   *)
(* is the sequence of its entries in insertion order.                      *)
(***************************************************************************)
EXTENDS Integers, Sequences, FiniteSets, TLC

\* ------------------------------------------------------------------ bounds
\* Number of processFileChanges calls made on one orchestrator.
MaxInv == 2
\* Largest number of leaf keys of a generated base file.
MaxKeys == 3
\* Largest batchSize option tried.
MaxBatchSize == 2
\* Largest retryAttempts option tried.
MaxRetry == 3
\* The larger run: a base file of ExampleKeys keys in batches of
\* ExampleBatchSize.
ExampleKeys == 5
ExampleBatchSize == 2
\* Number of start() and stop() calls made on one watcher.
MaxWatchCalls == 2
\* Number of raw file events delivered to one watcher.
MaxRaw == 3
\* Number of entries of the two trees handed to the diff detector, together.
MaxEntries == 2
\* Number of raw file events delivered to the watcher of an AutoTranslator.
MaxChanges == 2
\* The clock advances in steps of TickMs milliseconds.
TickMs == 100

\* ------------------------------------------------- constructor defaults
DefaultBatchSize == 10
DefaultRetryAttempts == 3
DefaultRetryDelay == 1000
DefaultRateLimitDelay == 100

\* ------------------------------------------------------------ tree values
Str(s) == [t |-> "str", s |-> s, o |-> <<>>]
Obj(es) == [t |-> "obj", s |-> "", o |-> es]
Ent(k, v) == [k |-> k, v |-> v]

\* null and undefined held as the value of a key
Null == [t |-> "null", s |-> "", o |-> <<>>]
UndefinedValue == [t |-> "undefined", s |-> "", o |-> <<>>]

\* undefined, and a defined string
Undefined == [def |-> FALSE, s |-> ""]
Defined(s) == [def |-> TRUE, s |-> s]

\* String.prototype.trim on the strings of the model
Trim(s) ==
  CASE s = " " -> ""
    [] s = "Hi " -> "Hi"
    [] s = "hi " -> "hi"
    [] OTHER -> s

\* String.prototype.toLowerCase on the strings of the model
ToLowerCase(s) ==
  CASE s = "Hi" -> "hi"
    [] s = "Hi " -> "hi "
    [] OTHER -> s

RECURSIVE SumLen(_, _)
SumLen(seqs, n) == IF n > Len(seqs) THEN 0 ELSE Len(seqs[n]) + SumLen(seqs, n + 1)

\* index of the entry named <<k>> in an object, 0 when `k in obj` is false
IndexOfKey(es, k) ==
  LET hits == {n \in 1..Len(es) : es[n].k = <<k>>}
  IN IF hits = {} THEN 0 ELSE CHOOSE n \in hits : TRUE

\* ---------------------------------------------------------- diff detector
RECURSIVE extractAllKeysFrom(_, _, _)
extractAllKeysFrom(data, prefix, n) ==
  IF n > Len(data) THEN <<>>
  ELSE LET key == data[n].k
           value == data[n].v
           fullKey == IF prefix # <<"">> THEN prefix \o key ELSE key
           here == IF value.t = "str" THEN <<fullKey>>
                   ELSE IF value.t = "obj"
                        THEN extractAllKeysFrom(value.o, fullKey, 1)
                        ELSE <<>>
       IN here \o extractAllKeysFrom(data, prefix, n + 1)

extractAllKeys(data) == extractAllKeysFrom(data, <<"">>, 1)

RECURSIVE walkKeys(_, _, _)
walkKeys(current, keys, n) ==
  IF n > Len(keys)
  THEN (IF current.t = "str" THEN Defined(current.s) ELSE Undefined)
  ELSE IF current.t = "obj" /\ IndexOfKey(current.o, keys[n]) # 0
       THEN walkKeys(current.o[IndexOfKey(current.o, keys[n])].v, keys, n + 1)
       ELSE Undefined

getNestedValue(data, key) == walkKeys(Obj(data), key, 1)

\* faulty variant: a blank target value counts as translated
KeyNeedsTranslationNoBlank(targetValue) == ~targetValue.def

KeyNeedsTranslation(targetValue) ==
  ~targetValue.def \/ Trim(targetValue.s) = ""

getKeysNeedingIncrementalTranslation(baseData, targetData) ==
  LET baseKeys == extractAllKeys(baseData)
  IN SelectSeq(baseKeys,
       LAMBDA key : KeyNeedsTranslation(getNestedValue(targetData, key)))

\* value || ''
OrEmpty(v) == IF v.def THEN v.s ELSE ""

valuesAreDifferent(oldValue, newValue, opts) ==
  IF oldValue = newValue THEN FALSE
  ELSE LET old1 == IF opts.ignoreCase THEN ToLowerCase(oldValue) ELSE oldValue
           new1 == IF opts.ignoreCase THEN ToLowerCase(newValue) ELSE newValue
           old2 == IF opts.ignoreWhitespace THEN Trim(old1) ELSE old1
           new2 == IF opts.ignoreWhitespace THEN Trim(new1) ELSE new1
       IN old2 # new2

\* faulty variant: an old value that is not a string is compared as ''
OldValueAbsentNever(oldValue) == FALSE

\* if (oldValue === undefined)
OldValueAbsent(oldValue) == ~oldValue.def

\* the list a key of newData is pushed to
changeType(oldData_, newData_, key, opts) ==
  LET oldValue == getNestedValue(oldData_, key)
      newValue == getNestedValue(newData_, key)
  IN IF OldValueAbsent(oldValue) THEN "added"
     ELSE IF valuesAreDifferent(OrEmpty(oldValue), OrEmpty(newValue), opts)
          THEN "modified"
          ELSE "unchanged"

\* Array.prototype.includes
Includes(seq, x) == \E n \in 1..Len(seq) : seq[n] = x

detectDiff(oldData_, newData_, opts) ==
  LET oldKeys == extractAllKeys(oldData_)
      newKeys == extractAllKeys(newData_)
      pushed(type) ==
        SelectSeq(newKeys,
                  LAMBDA key : changeType(oldData_, newData_, key, opts) = type)
  IN [added |-> pushed("added"),
      modified |-> pushed("modified"),
      removed |-> SelectSeq(oldKeys, LAMBDA key : ~Includes(newKeys, key)),
      unchanged |-> pushed("unchanged"),
      totalKeys |-> Len(newKeys)]

\* ----------------------------------------------------------------- parser
parserGetNestedValue(data, key) == walkKeys(Obj(data), key, 1)

\* object[key] = node: an existing property keeps its place
SetProperty(es, k, node) ==
  IF IndexOfKey(es, k) # 0
  THEN [es EXCEPT ![IndexOfKey(es, k)].v = node]
  ELSE Append(es, Ent(<<k>>, node))

\* !(k in current) || typeof current[k] !== 'object'  (typeof null is 'object')
NotAnObject(es, k) ==
  IndexOfKey(es, k) = 0 \/ es[IndexOfKey(es, k)].v.t \notin {"obj", "null"}

\* setNestedValue from segment n on, current being the object `es`: the
\* object after the call, or thrown when a property of null is read or set
RECURSIVE parserSetFrom(_, _, _, _)
parserSetFrom(es, keys, n, value) ==
  IF n = Len(keys)
  THEN [thrown |-> FALSE,
        o |-> IF keys[n] # "" THEN SetProperty(es, keys[n], Str(value)) ELSE es]
  ELSE LET k == keys[n]
       IN IF k = "" THEN parserSetFrom(es, keys, n + 1, value)
          ELSE IF NotAnObject(es, k)
          THEN LET rest == parserSetFrom(<<>>, keys, n + 1, value)
               IN [thrown |-> FALSE, o |-> SetProperty(es, k, Obj(rest.o))]
          ELSE IF es[IndexOfKey(es, k)].v.t = "null"
          THEN [thrown |-> \E m \in (n + 1)..Len(keys) : keys[m] # "",
                o |-> es]
          ELSE LET rest == parserSetFrom(es[IndexOfKey(es, k)].v.o, keys,
                                         n + 1, value)
               IN [thrown |-> rest.thrown,
                   o |-> IF rest.thrown THEN es
                         ELSE SetProperty(es, k, Obj(rest.o))]

parserSetNestedValue(data, key, value) == parserSetFrom(data, key, 1, value)

\* ------------------------------------------------------------ environment
BaseLanguage == "en"
TargetLanguages == <<"fr", "de">>
Files == {"en", "fr", "de"}

\* A file on disk, by what reading it gives: exists (fs.access, fs.readFile
\* succeed), ok (parser.parseFile succeeds), strict (JSON.parse of the raw
\* content succeeds) and the tree it holds.  JSON.stringify followed by
\* JSON.parse gives back the tree of strings and objects that was written.
Parsable(data) == [exists |-> TRUE, ok |-> TRUE, strict |-> TRUE, data |-> data]
Unparsable == [exists |-> TRUE, ok |-> FALSE, strict |-> FALSE, data |-> <<>>]
Missing == [exists |-> FALSE, ok |-> FALSE, strict |-> FALSE, data |-> <<>>]

\* what a provider's translate can resolve with
TranslatedTexts == {"Tr", ""}
\* the message of the error thrown by the n-th call made for one request
\* (a provider whose failures are told apart)
ErrorOfCall(n) == <<"E1", "E2", "E3", "E4", "E5">>[n]

VARIABLES
  provider,        \* orchestrator.provider: "null" or the provider's name
  setCall,         \* the last setProvider call: its argument and its outcome
  providerTexts,   \* the texts the provider's translate resolves with
  config,          \* the Config given to the constructors (batchSize, retryAttempts)
  providerThrows,  \* whether the provider's translate can throw
  isProcessing,    \* orchestrator.isProcessing
  currentBatch,    \* orchestrator.currentBatch: 0 (null) or the owning invocation
  options,         \* orchestrator.options
  errorListener,   \* whether an 'error' listener is registered on the orchestrator
  files,           \* the translation files on disk
  inv,             \* the processFileChanges invocations (locals and position)
  observed,        \* the 'error' observations delivered by the orchestrator
  autoRunning,     \* AutoTranslator.isRunning
  autoProcessing,  \* AutoTranslator.isProcessing
  tf,              \* the translateFile calls (locals and position)
  life,            \* the start() and stop() call of the AutoTranslator
  delivered,       \* the fileChange observations handed to its listener
  isWatching,      \* watcher.isWatching
  watcher,         \* watcher.watcher: 0 (null) or the watch handle
  handles,         \* the watch handles created so far: open, closing, closed
  debounceMs,      \* watcher.options.debounceMs
  debounceTimers,  \* watcher.debounceTimers: key -> timer, 0 when absent
  timers,          \* the timeouts set and neither expired nor cleared
  timerCount,      \* the number of timeouts set so far
  wcall,           \* the calls of watcher.start() and watcher.stop()
  emitted,         \* the fileChange and type observations emitted, in order
  raw,             \* per key, the raw events handed to debounceFileChange
  skipped,         \* the paths whose raw events handleFileChange dropped
  oldData,         \* the first tree handed to a key-path or diff function
  newData,         \* the second tree
  call             \* the function applied last, its arguments and its result

orchVars == <<provider, setCall, providerTexts, config, providerThrows, isProcessing, currentBatch, options, errorListener,
              files, inv, observed>>

autoVars == <<autoRunning, autoProcessing, tf, life, delivered>>

watchVars == <<isWatching, watcher, handles, debounceMs, debounceTimers, timers,
               timerCount, wcall, emitted, raw, skipped>>

pureVars == <<oldData, newData, call>>

Inv == 1..MaxInv

NoBatch == [requests |-> <<>>, responses |-> <<>>, successCount |-> 0,
            errorCount |-> 0]

NoResponse == [key |-> <<>>, originalText |-> "", translatedText |-> "",
               targetLanguage |-> "", success |-> FALSE, error |-> ""]

\* history: the calls made, the delays awaited and the errors thrown for the
\* request whose response was recorded last
NoRequest == [n |-> 0, attempt |-> 0, calls |-> 0, waits |-> <<>>,
              thrown |-> <<>>, response |-> NoResponse]

IdleInvocation ==
  [pc |-> "idle", targets |-> <<>>, baseData |-> <<>>, ti |-> 0,
   requests |-> <<>>, i |-> 0, batch |-> NoBatch, ri |-> 0, attempt |-> 0,
   lastError |-> "", pairBatches |-> <<>>, batches |-> <<>>, error |-> "",
   \* history, not program state
   calls |-> 0, waits |-> <<>>, thrown |-> <<>>, last |-> NoRequest,
   runs |-> <<>>, started |-> 0, stopped |-> FALSE, afterStop |-> 0,
   failed |-> <<>>, clean |-> TRUE, outstanding |-> 0, responses |-> <<>>]

InFlight(i) == inv[i].pc \notin {"idle", "returned", "rejected"}

\* Array.prototype.slice(from, to) with 0-based indices
Slice(seq, from, to) ==
  LET hi == IF to < Len(seq) THEN to ELSE Len(seq)
  IN IF from >= hi THEN <<>> ELSE [n \in 1..(hi - from) |-> seq[from + n]]

detectTargetLanguage(filePath) ==
  IF \E n \in 1..Len(TargetLanguages) : TargetLanguages[n] = filePath
  THEN filePath
  ELSE TargetLanguages[1]

\* the history entry of the target being processed
AddEvent(r, e) ==
  [r EXCEPT !.runs[Len(r.runs)].events = Append(@, e)]
BatchEvent(b) ==
  [kind |-> "batch", ms |-> 0,
   keys |-> [n \in 1..Len(b.requests) |-> b.requests[n].key]]
DelayEvent(ms) == [kind |-> "delay", ms |-> ms, keys |-> <<>>]

\* --------------------------------------------- TranslationOrchestrator
\* The result of running an invocation up to its next await: the invocation's
\* new locals, what happened to currentBatch ("keep", "set", "null"), whether
\* the finally block of processFileChanges ran, and the files whose failure
\* was delivered as an 'error' observation.
Out(r, cb, fin, obs) == [r |-> r, cb |-> cb, fin |-> fin, obs |-> obs]

\* processFileChanges returns its batches (finally: isProcessing = false)
Return(r, cb) == Out([r EXCEPT !.pc = "returned"], cb, TRUE, {})

\* faulty variant: the rejection leaves processFileChanges without running
\* the finally block
RejectWithoutFinally(r, msg, cb) ==
  Out([r EXCEPT !.pc = "rejected", !.error = msg], cb, FALSE, {})

\* processFileChanges rejects (finally: isProcessing = false)
Reject(r, msg, cb) ==
  Out([r EXCEPT !.pc = "rejected", !.error = msg], cb, TRUE, {})

\* for (const targetFile of targetLanguageFiles): the next iteration
NextTarget(r, cb, obs) ==
  IF r.ti < Len(r.targets)
  THEN Out([r EXCEPT !.ti = @ + 1, !.pc = "parseTarget"], cb, FALSE, obs)
  ELSE Out([r EXCEPT !.pc = "returned"], cb, TRUE, obs)

\* translateWithRetry(request): attempt = 1, provider.translate is awaited
StartRequest(r, n) ==
  [r EXCEPT !.ri = n, !.attempt = 1, !.lastError = "", !.pc = "translate",
            !.calls = 1, !.waits = <<>>, !.thrown = <<>>,
            !.outstanding = @ + 1]

\* processBatch(requests.slice(i, i + batchSize)) up to its first await
StartBatch(r) ==
  LET batchRequests == Slice(r.requests, r.i, r.i + options.batchSize)
      batch == [requests |-> batchRequests, responses |-> <<>>,
                successCount |-> 0, errorCount |-> 0]
  IN StartRequest([r EXCEPT !.batch = batch, !.started = @ + 1], 1)

\* faulty variant: every batch of the pair is returned
PairResultAll(batches) == batches

\* return batches[0] || null
PairResult(batches) ==
  IF Len(batches) > 0 THEN <<batches[1]>> ELSE <<>>

\* if (batch && batch.requests.length > 0) batches.push(batch)
PushPairResult(batches, result) ==
  batches \o SelectSeq(result, LAMBDA b : Len(b.requests) > 0)

\* faulty variant: the delay is also awaited after the last batch
MoreBatchesAlways(i, batchSize, n) == i < n

\* if (i + batchSize < requests.length) await delay(rateLimitDelay)
MoreBatches(i, batchSize, n) == i + batchSize < n

\* processLanguagePair returned to processFileChanges
PairReturn(r, cb) ==
  LET done == [r EXCEPT !.runs[Len(r.runs)].done = TRUE,
                        !.batches = PushPairResult(@, PairResult(r.pairBatches))]
  IN NextTarget(done, cb, {})

\* for (let i = 0; i < requests.length; i += batchSize): the loop test
LoopContinues(i, n) == i < n

\* i += batchSize, the loop test, and the next processBatch or the return
NextBatch(r, cb) ==
  LET r1 == [r EXCEPT !.i = @ + options.batchSize]
  IN IF LoopContinues(r1.i, Len(r1.requests))
     THEN Out(StartBatch(r1), "set", FALSE, {})
     ELSE PairReturn(r1, cb)

\* the end of processBatch and the rest of the loop body that called it
BatchEnd(r) ==
  LET r1 == AddEvent([r EXCEPT !.pairBatches = Append(@, r.batch),
                               !.afterStop = IF r.stopped THEN @ + 1 ELSE @],
                     BatchEvent(r.batch))
  IN IF MoreBatches(r1.i, options.batchSize, Len(r1.requests))
     THEN Out(AddEvent([r1 EXCEPT !.pc = "rateDelay"],
                       DelayEvent(options.rateLimitDelay)),
              "null", FALSE, {})
     ELSE NextBatch(r1, "null")

\* batch.responses.push(response) and the rest of the for loop of processBatch
PushResponse(r, response) ==
  LET r1 == [r EXCEPT !.batch.responses = Append(@, response),
                      !.responses = Append(@, response),
                      !.batch.successCount =
                          IF response.success THEN @ + 1 ELSE @,
                      !.batch.errorCount =
                          IF response.success THEN @ ELSE @ + 1,
                      !.last = [n |-> r.started, attempt |-> r.attempt,
                                calls |-> r.calls, waits |-> r.waits,
                                thrown |-> r.thrown, response |-> response]]
  IN IF r1.ri < Len(r1.batch.requests)
     THEN Out(StartRequest(r1, r1.ri + 1), "keep", FALSE, {})
     ELSE BatchEnd(r1)

\* the response objects built by translateWithRetry and by processBatch's catch
SuccessResponse(r, text) ==
  LET request == r.batch.requests[r.ri]
  IN [key |-> request.key, originalText |-> request.text,
      translatedText |-> text, targetLanguage |-> request.targetLanguage,
      success |-> TRUE, error |-> ""]

FailedResponse(r, message) ==
  LET request == r.batch.requests[r.ri]
  IN [key |-> request.key, originalText |-> request.text,
      translatedText |-> "", targetLanguage |-> request.targetLanguage,
      success |-> FALSE, error |-> message]

\* faulty variant: one attempt too few
RetryAgainOneLess(attempt, retryAttempts) == attempt < retryAttempts - 1

\* if (attempt < retryAttempts) await delay(...)
\* (the for loop's attempt <= retryAttempts decides the same after attempt++)
RetryAgain(attempt, retryAttempts) == attempt < retryAttempts

\* faulty variant: a constant backoff
RetryWaitConstant(retryDelay, attempt) == retryDelay

\* retryDelay * attempt
RetryWait(retryDelay, attempt) == retryDelay * attempt

\* this.emit('error', ...) in the per-target catch: an EventEmitter with no
\* 'error' listener throws from emit, and the exception leaves the for loop
TargetFailed(r) ==
  LET r1 == [r EXCEPT !.failed = Append(@, r.targets[r.ti])]
  IN IF errorListener
     THEN NextTarget(r1, "keep", {r.targets[r.ti]})
     ELSE Reject(r1, "Unhandled error", "keep")

\* processLanguagePair up to its first await
StartPair(r, targetData) ==
  LET targetFile == r.targets[r.ti]
      keys == getKeysNeedingIncrementalTranslation(r.baseData, targetData)
      text(key) == LET v == parserGetNestedValue(r.baseData, key)
                   IN IF v.def THEN v.s ELSE ""
      requests == [n \in 1..Len(keys) |->
                     [key |-> keys[n], text |-> text(keys[n]),
                      targetLanguage |-> detectTargetLanguage(targetFile)]]
      r1 == [r EXCEPT !.runs = Append(@, [file |-> targetFile, keys |-> keys,
                                          events |-> <<>>, done |-> FALSE]),
                      !.requests = requests, !.i = 0, !.pairBatches = <<>>]
  IN IF Len(keys) = 0
     THEN PairReturn(r1, "keep")
     ELSE Out(StartBatch(r1), "set", FALSE, {})

\* the effect of an invocation's step on the orchestrator
Apply(i, out) ==
  /\ inv' = [inv EXCEPT ![i] = out.r]
  /\ currentBatch' = CASE out.cb = "set" -> i
                       [] out.cb = "null" -> 0
                       [] OTHER -> currentBatch
  /\ isProcessing' = IF out.fin THEN FALSE ELSE isProcessing
  /\ observed' = observed \cup out.obs

\* faulty variant: processBatch without its catch: the exception reaches the
\* per-target catch of processFileChanges
RequestFailedUncaught(r, message) == TargetFailed(r)

\* faulty variant: the next request is started, the failed one unrecorded
RequestFailedUnrecorded(r, message) ==
  IF r.ri < Len(r.batch.requests)
  THEN Out(StartRequest(r, r.ri + 1), "keep", FALSE, {})
  ELSE BatchEnd(r)

\* processBatch's catch: the request is recorded as a failed response
RequestFailed(r, message) == PushResponse(r, FailedResponse(r, message))

\* faulty variant: no guard on isProcessing
BusyNever(processing) == FALSE

\* if (this.isProcessing) throw new Error('Translation already in progress')
Busy(processing) == processing

\* processFileChanges(baseLanguageFile, targetLanguageFiles) up to its first
\* await, called as invocation i
Enter(i, targets) ==
  IF provider = "null"
  THEN /\ inv' = [inv EXCEPT ![i].pc = "rejected",
                             ![i].error = "No translation provider configured"]
       /\ UNCHANGED <<isProcessing, currentBatch, observed>>
  ELSE IF Busy(isProcessing)
  THEN /\ inv' = [inv EXCEPT ![i].pc = "rejected",
                             ![i].error = "Translation already in progress"]
       /\ UNCHANGED <<isProcessing, currentBatch, observed>>
  ELSE /\ isProcessing' = TRUE
       /\ inv' = [inv EXCEPT ![i].pc = "parseBase", ![i].targets = targets]
       /\ UNCHANGED <<currentBatch, observed>>

\* await this.parser.parseFile(baseLanguageFile) settles
ParseBaseSettled(i) ==
  /\ inv[i].pc = "parseBase"
  /\ IF files[BaseLanguage].ok
     THEN Apply(i, NextTarget([inv[i] EXCEPT
                                 !.baseData = files[BaseLanguage].data,
                                 !.ti = 0], "keep", {}))
     ELSE Apply(i, Reject(inv[i], "Failed to parse file", "keep"))
  /\ UNCHANGED <<provider, setCall, providerTexts, config, providerThrows, options, errorListener,
                 files, autoVars, watchVars, pureVars>>

\* await this.parser.parseFile(targetFile) settles
ParseTargetSettled(i) ==
  /\ inv[i].pc = "parseTarget"
  /\ LET content == files[inv[i].targets[inv[i].ti]]
     IN IF content.ok
        THEN Apply(i, StartPair(inv[i], content.data))
        ELSE Apply(i, TargetFailed(inv[i]))
  /\ UNCHANGED <<provider, setCall, providerTexts, config, providerThrows, options, errorListener,
                 files, autoVars, watchVars, pureVars>>

\* await this.provider.translate(...) resolves
TranslateResolved(i) ==
  /\ inv[i].pc = "translate"
  /\ \E text \in providerTexts :
       Apply(i, PushResponse([inv[i] EXCEPT !.clean = @ /\ text # "",
                                            !.outstanding = @ - 1],
                             SuccessResponse(inv[i], text)))
  /\ UNCHANGED <<provider, setCall, providerTexts, config, providerThrows, options, errorListener,
                 files, autoVars, watchVars, pureVars>>

\* await this.provider.translate(...) rejects
TranslateRejected(i) ==
  /\ inv[i].pc = "translate"
  /\ providerThrows
  /\ LET e == ErrorOfCall(inv[i].calls)
         r == [inv[i] EXCEPT !.lastError = e, !.thrown = Append(@, e),
                             !.clean = FALSE, !.outstanding = @ - 1]
     IN IF RetryAgain(r.attempt, options.retryAttempts)
          THEN Apply(i, Out([r EXCEPT !.pc = "retryDelay",
                                      !.waits = Append(@,
                                         RetryWait(options.retryDelay, r.attempt))],
                            "keep", FALSE, {}))
          ELSE Apply(i, RequestFailed(r, r.lastError))
  /\ UNCHANGED <<provider, setCall, providerTexts, config, providerThrows, options, errorListener,
                 files, autoVars, watchVars, pureVars>>

\* await this.delay(retryDelay * attempt) resolves: attempt++, next try
RetryDelayElapsed(i) ==
  /\ inv[i].pc = "retryDelay"
  /\ Apply(i, Out([inv[i] EXCEPT !.attempt = @ + 1, !.calls = @ + 1,
                                 !.outstanding = @ + 1,
                                 !.pc = "translate"], "keep", FALSE, {}))
  /\ UNCHANGED <<provider, setCall, providerTexts, config, providerThrows, options, errorListener,
                 files, autoVars, watchVars, pureVars>>

\* await this.delay(rateLimitDelay) resolves: i += batchSize, next batch
RateDelayElapsed(i) ==
  /\ inv[i].pc = "rateDelay"
  /\ Apply(i, NextBatch(inv[i], "keep"))
  /\ UNCHANGED <<provider, setCall, providerTexts, config, providerThrows, options, errorListener,
                 files, autoVars, watchVars, pureVars>>

\* a direct call of orchestrator.processFileChanges
ProcessFileChanges(i) ==
  /\ inv[i].pc = "idle"
  /\ \A j \in Inv : j < i => inv[j].pc # "idle"
  /\ Enter(i, TargetLanguages)
  /\ UNCHANGED <<provider, setCall, providerTexts, config, providerThrows, options, errorListener,
                 files, autoVars, watchVars, pureVars>>

\* orchestrator.stop()
Stop ==
  /\ isProcessing' = FALSE
  /\ currentBatch' = 0
  /\ inv' = [i \in Inv |->
               IF InFlight(i) THEN [inv[i] EXCEPT !.stopped = TRUE] ELSE inv[i]]
  /\ UNCHANGED <<provider, setCall, providerTexts, config, providerThrows, options, errorListener,
                 files, observed, autoVars, watchVars, pureVars>>

\* the providers handed to setProvider, by name
ProviderNames == {"mock", "local"}

\* setProvider has not been called
NoSetCall ==
  [provider |-> "none", valid |-> TRUE, thrown |-> FALSE, error |-> "",
   emitted |-> <<>>]

\* faulty variant: the provider's configuration is not validated
ValidConfigAlways(valid) == TRUE

\* provider.validateConfig(this.config.provider.config)
ValidConfig(valid) == valid

\* setProvider(p) of a provider whose validateConfig returns `valid`
setProvider(p, valid) ==
  IF ValidConfig(valid)
  THEN /\ provider' = p
       /\ setCall' = [provider |-> p, valid |-> valid, thrown |-> FALSE,
                      error |-> "",
                      emitted |-> <<[type |-> "providerChanged",
                                     provider |-> p]>>]
  ELSE /\ provider' = provider
       /\ setCall' = [provider |-> p, valid |-> valid, thrown |-> TRUE,
                      error |-> "Invalid configuration for provider",
                      emitted |-> <<>>]

\* orchestrator.setProvider(provider)
SetProvider(p, valid) ==
  /\ setProvider(p, valid)
  /\ UNCHANGED <<providerTexts, config, providerThrows, isProcessing, currentBatch,
                 options, errorListener, files, inv, observed, autoVars, watchVars, pureVars>>

\* --------------------------------------------------------- AutoTranslator
\* a file path: its directories, its base name without extension, its extension
PathOf(name) == [dir |-> <<"locales">>, name |-> name, ext |-> ".json"]

\* the names that match /^([a-z]{2,3}(-[A-Z]{2})?)$/
LanguageTags == {"en", "fr", "de"}
LocaleDirectories == {"locales", "i18n", "translations", "lang"}

\* path.split(path.sep): the directories, then the file name with extension;
\* the part after the first locale directory when it is a directory
detectLanguageFromPath(p) ==
  IF p.name \in LanguageTags THEN p.name
  ELSE LET hits == {n \in 1..Len(p.dir) : p.dir[n] \in LocaleDirectories}
           first == CHOOSE n \in hits : \A m \in hits : n <= m
       IN IF hits # {} /\ first < Len(p.dir) /\ p.dir[first + 1] \in LanguageTags
          THEN p.dir[first + 1]
          ELSE "null"

NoResult == [success |-> FALSE, batchesProcessed |-> 0, totalTranslations |-> 0,
             errors |-> <<>>, updatedFiles |-> <<>>]

IdleCall == [pc |-> "idle", filePath |-> PathOf(""), targetFiles |-> <<>>,
             result |-> NoResult, error |-> ""]

\* object[key] = node: an existing property keeps its place
PutKey(es, k, node) ==
  IF IndexOfKey(es, k) # 0
  THEN [es EXCEPT ![IndexOfKey(es, k)].v = node]
  ELSE Append(es, Ent(<<k>>, node))

RECURSIVE setNestedFrom(_, _, _, _)
setNestedFrom(obj, keys, n, value) ==
  IF n > Len(keys) THEN obj
  ELSE IF n = Len(keys) THEN PutKey(obj, keys[n], Str(value))
  ELSE LET at == IndexOfKey(obj, keys[n])
           child == IF at # 0 /\ obj[at].v.t = "obj" THEN obj[at].v.o ELSE <<>>
       IN PutKey(obj, keys[n], Obj(setNestedFrom(child, keys, n + 1, value)))

\* AutoTranslator.setNestedValue(obj, path, value)
autoSetNestedValue(obj, path, value) ==
  setNestedFrom(obj, SelectSeq(path, LAMBDA k : k # ""), 1, value)

RECURSIVE Flatten(_, _)
Flatten(seqs, n) ==
  IF n > Len(seqs) THEN <<>> ELSE seqs[n] \o Flatten(seqs, n + 1)

\* faulty variant: failed and empty responses are written too
WritableAny(response) == TRUE

\* if (response.success && response.translatedText)
Writable(response) == response.success /\ response.translatedText # ""

\* Map.set(key, text): an existing key keeps its place
MapSet(m, key, text) ==
  IF \E n \in 1..Len(m) : m[n].key = key
  THEN [n \in 1..Len(m) |-> IF m[n].key = key THEN [m[n] EXCEPT !.text = text]
                            ELSE m[n]]
  ELSE Append(m, [key |-> key, text |-> text])

RECURSIVE collectTranslations(_, _, _)
collectTranslations(responses, lang, n) ==
  IF n = 0 THEN <<>>
  ELSE LET before == collectTranslations(responses, lang, n - 1)
       IN IF Writable(responses[n]) /\ responses[n].targetLanguage = lang
          THEN MapSet(before, responses[n].key, responses[n].translatedText)
          ELSE before

RECURSIVE applyTranslations(_, _, _)
applyTranslations(data, translations, n) ==
  IF n = 0 THEN data
  ELSE autoSetNestedValue(applyTranslations(data, translations, n - 1),
                          translations[n].key, translations[n].text)

\* updateTargetFiles(batches, targetFiles): the files after the write-back
updateTargetFiles(fs, batches, targetFiles) ==
  LET responses == Flatten([b \in 1..Len(batches) |-> batches[b].responses], 1)
      langs == {targetFiles[n] : n \in 1..Len(targetFiles)}
      translations(lang) == collectTranslations(responses, lang, Len(responses))
      existingData(lang) == IF fs[lang].exists /\ fs[lang].strict
                            THEN fs[lang].data ELSE <<>>
  IN [f \in DOMAIN fs |->
        IF f \in langs /\ Len(translations(f)) > 0
        THEN Parsable(applyTranslations(existingData(f), translations(f),
                                        Len(translations(f))))
        ELSE fs[f]]

\* faulty variant: translateFile without its catch
CallFailedUncaught(j, message) ==
  /\ tf' = [tf EXCEPT ![j].pc = "rejected", ![j].error = message]
  /\ autoProcessing' = FALSE

\* the catch and finally of translateFile
CallFailed(j, message) ==
  /\ tf' = [tf EXCEPT ![j].pc = "resolved",
                      ![j].result.errors = Append(@, message)]
  /\ autoProcessing' = FALSE

\* AutoTranslator.start(): setupProvider, watcher.start(), isRunning = true
AutoStart ==
  /\ ~autoRunning
  /\ \E supported \in BOOLEAN, valid \in BOOLEAN, watcherOk \in BOOLEAN :
       /\ IF supported THEN setProvider("mock", valid)
          ELSE UNCHANGED <<provider, setCall>>
       /\ autoRunning' = (supported /\ valid /\ watcherOk)
  /\ UNCHANGED <<providerTexts, config, providerThrows, isProcessing, currentBatch,
                 options, errorListener, files, inv, observed, autoProcessing, tf,
                 life, delivered, watchVars, pureVars>>

\* faulty variant: no guard on the translate call in progress
TranslatingNever(processing) == FALSE

\* if (this.isProcessing) throw new Error("Translation already in progress")
Translating(processing) == processing

\* the calls are made one after the other
FreeCall(j) ==
  /\ tf[j].pc = "idle"
  /\ \A k \in Inv : k < j => tf[k].pc # "idle"

\* translateFile(filePath) up to its first await, as call j
translateFile(j, path) ==
  IF ~autoRunning
  THEN /\ tf' = [tf EXCEPT ![j].pc = "rejected",
                     ![j].error = "Translation manager is not running"]
       /\ UNCHANGED autoProcessing
  ELSE IF Translating(autoProcessing)
  THEN /\ tf' = [tf EXCEPT ![j].pc = "rejected",
                     ![j].error = "Translation already in progress"]
       /\ UNCHANGED autoProcessing
  ELSE IF detectLanguageFromPath(path) # BaseLanguage
  THEN /\ tf' = [tf EXCEPT ![j].pc = "resolved", ![j].filePath = path,
                     ![j].result.errors =
                         Append(@, "not a base language file")]
       /\ UNCHANGED autoProcessing
  ELSE /\ tf' = [tf EXCEPT ![j].pc = "listing", ![j].filePath = path]
       /\ autoProcessing' = TRUE

\* a manual call of translateFile
TranslateFile(j) ==
  /\ FreeCall(j)
  /\ \E path \in {PathOf("en"), PathOf("fr")} : translateFile(j, path)
  /\ UNCHANGED <<orchVars, autoRunning, life, delivered,
                 watchVars, pureVars>>

\* await this.getTargetLanguageFiles() resolves; processFileChanges is called
TargetFilesListed(j) ==
  /\ tf[j].pc = "listing"
  /\ LET targetFiles == SelectSeq(TargetLanguages, LAMBDA l : files[l].exists)
     IN IF Len(targetFiles) = 0
        THEN /\ CallFailed(j, "No target language files found")
             /\ UNCHANGED <<isProcessing, currentBatch, inv, observed>>
        ELSE /\ tf' = [tf EXCEPT ![j].pc = "processing",
                                 ![j].targetFiles = targetFiles]
             /\ Enter(j, targetFiles)
             /\ UNCHANGED autoProcessing
  /\ UNCHANGED <<provider, setCall, providerTexts, config, providerThrows, options,
                 errorListener, files, autoRunning, life, delivered,
                 watchVars, pureVars>>

\* await this.orchestrator.processFileChanges(...) settles
ProcessSettled(j) ==
  /\ tf[j].pc = "processing"
  /\ inv[j].pc \in {"returned", "rejected"}
  /\ IF inv[j].pc = "rejected"
     THEN CallFailed(j, inv[j].error)
     ELSE IF Len(inv[j].batches) > 0
     THEN /\ tf' = [tf EXCEPT ![j].pc = "updating"]
          /\ UNCHANGED autoProcessing
     ELSE /\ tf' = [tf EXCEPT ![j].pc = "resolved", ![j].result.success = TRUE]
          /\ autoProcessing' = FALSE
  /\ UNCHANGED <<orchVars, autoRunning, life, delivered,
                 watchVars, pureVars>>

\* await this.updateTargetFiles(batches, targetFiles) resolves
TargetFilesUpdated(j) ==
  /\ tf[j].pc = "updating"
  /\ files' = updateTargetFiles(files, inv[j].batches, tf[j].targetFiles)
  /\ tf' = [tf EXCEPT
              ![j].pc = "resolved",
              ![j].result =
                 [success |-> TRUE,
                  batchesProcessed |-> Len(inv[j].batches),
                  totalTranslations |->
                     SumLen([b \in 1..Len(inv[j].batches) |->
                               inv[j].batches[b].responses], 1),
                  errors |-> <<>>,
                  updatedFiles |-> tf[j].targetFiles]]
  /\ autoProcessing' = FALSE
  /\ UNCHANGED <<provider, setCall, providerTexts, config, providerThrows, isProcessing,
                 currentBatch, options, errorListener, inv, observed, autoRunning, life, delivered,
                 watchVars, pureVars>>

\* ------------------------------------------------------ TranslationWatcher
DefaultDebounceMs == 300

\* the file events the watcher listens to, and the paths they arrive on
EventTypes == {"change", "unlink"}
NotesPath == [dir |-> <<"locales">>, name |-> "en", ext |-> ".md"]
MessagesPath == [dir |-> <<"locales">>, name |-> "messages", ext |-> ".json"]
WatchedPaths == {PathOf("en"), PathOf("fr"), NotesPath, MessagesPath}

\* config.filePattern '.*\.json$' tested on the base name
FilePatternMatches(p) == p.ext = ".json"

ValidExtensions == {".json", ".yaml", ".yml", ".js", ".ts"}

isTranslationFile(p) ==
  IF ~FilePatternMatches(p) THEN FALSE ELSE p.ext \in ValidExtensions

\* the watcher's own copy of the language detection
watcherDetectLanguageFromPath(p) ==
  IF p.name \in LanguageTags THEN p.name
  ELSE LET hits == {n \in 1..Len(p.dir) : p.dir[n] \in LocaleDirectories}
           first == CHOOSE n \in hits : \A m \in hits : n <= m
       IN IF hits # {} /\ first < Len(p.dir) /\ p.dir[first + 1] \in LanguageTags
          THEN p.dir[first + 1]
          ELSE "null"

\* faulty variant: the key is the path alone
DebounceKeyOfPath(type, p) == <<"change", p>>

\* `${type}:${filePath}`
DebounceKey(type, p) == <<type, p>>
DebounceKeys == {DebounceKey(type, p) : type \in EventTypes, p \in WatchedPaths}

\* clearTimeout(existingTimer), without effect
ClearTimeoutForgotten(ts, id) == ts

\* clearTimeout(id): the timeout no longer expires
ClearTimeout(ts, id) == {t \in ts : t.id # id}

\* faulty variant: the files of every language are passed on
DebouncedAnyLanguage(p) ==
  /\ isTranslationFile(p)
  /\ watcherDetectLanguageFromPath(p) # "null"

\* whether handleFileChange passes the event on to debounceFileChange
Debounced(p) ==
  /\ isTranslationFile(p)
  /\ watcherDetectLanguageFromPath(p) # "null"
  /\ watcherDetectLanguageFromPath(p) = BaseLanguage

StoppedAndNotRestarted == ~isWatching /\ \A c \in DOMAIN wcall : wcall[c].pc # "validating"

\* the two observations of processFileChange, in the order emitted; in
\* place of the timestamp, the time since the last raw event of the key
FileChangeObservations(t) ==
  LET ev == [type |-> t.type, filePath |-> t.filePath, language |-> t.language,
             quiet |-> raw[DebounceKey(t.type, t.filePath)].since,
             stopped |-> StoppedAndNotRestarted]
  IN <<[event |-> "fileChange", data |-> ev], [event |-> t.type, data |-> ev]>>

\* a call of watcher.start() or watcher.stop(): where it stands, the handle
\* it created or closes, the error it rejected with and the 'started' or
\* 'stopped' observation it emitted
IdleWatchCall ==
  [op |-> "none", pc |-> "idle", handle |-> 0, error |-> "", emitted |-> <<>>,
   path |-> "none"]

\* the calls are made one after the other, each while earlier ones may
\* still be suspended
WatchCallFree(c) ==
  /\ wcall[c].pc = "idle"
  /\ \A d \in DOMAIN wcall : d < c => wcall[d].pc # "idle"

\* faulty variant: start() without its guard
AlreadyWatchingNever(watching) == FALSE

\* if (this.isWatching) throw new Error('Watcher is already running')
AlreadyWatching(watching) == watching

\* what fs.stat finds at config.watchPath
PathKinds == {"directory", "file", "missing"}

\* faulty variant: any path is accepted
IsDirectoryAlways(kind) == TRUE

\* validateWatchPath(): fs.stat succeeds and stats.isDirectory()
IsDirectory(kind) == kind = "directory"

\* the error validateWatchPath() throws
WatchPathError(kind) ==
  IF kind = "missing" THEN "Watch path does not exist"
  ELSE "Watch path must be a directory"

\* start(), up to the await of validateWatchPath(): what it does to the
\* watcher
StartWatching(c) ==
  /\ WatchCallFree(c)
  /\ IF AlreadyWatching(isWatching)
     THEN wcall' = [wcall EXCEPT ![c] = [IdleWatchCall EXCEPT
                      !.op = "start", !.pc = "rejected",
                      !.error = "Watcher is already running"]]
     ELSE wcall' = [wcall EXCEPT ![c] = [IdleWatchCall EXCEPT
                      !.op = "start", !.pc = "validating"]]
  /\ UNCHANGED <<skipped, isWatching, watcher, handles, debounceMs,
                 debounceTimers, timers, timerCount, emitted, raw>>

\* a direct call of watcher.start()
WatcherStart(c) ==
  /\ StartWatching(c)
  /\ UNCHANGED <<orchVars, autoVars, pureVars>>

\* validateWatchPath() settled: the handle is created and listened to, or
\* start() rejects with the validation error
WatchPathValidated(c, kind) ==
  /\ wcall[c].pc = "validating"
  /\ IF IsDirectory(kind)
     THEN /\ handles' = Append(handles, "open")
          /\ watcher' = Len(handles) + 1
          /\ isWatching' = TRUE
          /\ wcall' = [wcall EXCEPT ![c].pc = "resolved",
                                    ![c].path = kind,
                                    ![c].handle = Len(handles) + 1,
                                    ![c].emitted = <<"started">>]
     ELSE /\ wcall' = [wcall EXCEPT ![c].pc = "rejected",
                                    ![c].path = kind,
                                    ![c].error = WatchPathError(kind)]
          /\ UNCHANGED <<handles, watcher, isWatching>>
  /\ UNCHANGED <<orchVars, autoVars, pureVars, skipped, debounceMs, debounceTimers, timers,
                 timerCount, emitted, raw>>

\* stop(), up to the await of watcher.close(): what it does to the watcher
StopWatching(c) ==
  /\ WatchCallFree(c)
  /\ IF ~isWatching \/ watcher = 0
     THEN /\ wcall' = [wcall EXCEPT ![c] = [IdleWatchCall EXCEPT
                        !.op = "stop", !.pc = "resolved"]]
          /\ UNCHANGED <<handles, debounceTimers, timers, raw>>
     ELSE /\ timers' = {t \in timers :
                          \A k \in DebounceKeys : debounceTimers[k] # t.id}
          /\ debounceTimers' = [k \in DebounceKeys |-> 0]
          /\ raw' = [k \in DebounceKeys |-> [raw[k] EXCEPT !.cleared = raw[k].n > 0]]
          /\ handles' = [handles EXCEPT ![watcher] =
                           IF @ = "open" THEN "closing" ELSE @]
          /\ wcall' = [wcall EXCEPT ![c] = [IdleWatchCall EXCEPT
                        !.op = "stop", !.pc = "closing", !.handle = watcher]]
  /\ UNCHANGED <<skipped, isWatching, watcher, debounceMs, timerCount, emitted>>

\* a direct call of watcher.stop()
WatcherStop(c) ==
  /\ StopWatching(c)
  /\ UNCHANGED <<orchVars, autoVars, pureVars>>

\* watcher.close() of the watch handle settled: closed, or close() rejects
HandleClosed(h, ok) ==
  /\ h \in DOMAIN handles
  /\ handles[h] = "closing"
  /\ handles' = [handles EXCEPT ![h] = IF ok THEN "closed" ELSE "closeFailed"]
  /\ UNCHANGED <<orchVars, autoVars, pureVars, skipped, isWatching, watcher, debounceMs,
                 debounceTimers, timers, timerCount, wcall, emitted, raw>>

\* stop(), after the await of watcher.close()
WatcherStopResumed(c) ==
  /\ wcall[c].pc = "closing"
  /\ handles[wcall[c].handle] \in {"closed", "closeFailed"}
  /\ IF handles[wcall[c].handle] = "closed"
     THEN /\ watcher' = 0
          /\ isWatching' = FALSE
          /\ wcall' = [wcall EXCEPT ![c].pc = "resolved",
                                    ![c].emitted = <<"stopped">>]
     ELSE /\ wcall' = [wcall EXCEPT ![c].pc = "rejected",
                                    ![c].error = "Failed to close the watcher"]
          /\ UNCHANGED <<watcher, isWatching>>
  /\ UNCHANGED <<orchVars, autoVars, pureVars, skipped, handles, debounceMs, debounceTimers, timers,
                 timerCount, emitted, raw>>

\* the history of a key after one more raw event: the number of events, the
\* time since the last one (counted up to debounceMs), whether each came less
\* than debounceMs after the one before, and whether clearAllDebounceTimers()
\* ran since the first
RawSeen(h) ==
  [n |-> h.n + 1, since |-> 0, cleared |-> h.cleared,
   rapid |-> h.n = 0 \/ (h.rapid /\ h.since < debounceMs)]

Min(a, b) == IF a < b THEN a ELSE b
Max(a, b) == IF a > b THEN a ELSE b

RECURSIVE RawCount(_)
RawCount(keys) ==
  IF keys = {} THEN 0
  ELSE LET k == CHOOSE x \in keys : TRUE
       IN raw[k].n + RawCount(keys \ {k})

\* a handle delivers an 'add', 'change' or 'unlink' event to its listener:
\* handleFileChange and debounceFileChange
RawEvent(h, type, p) ==
  /\ h \in DOMAIN handles
  /\ handles[h] \in {"open", "closing", "closeFailed"}
  /\ IF Debounced(p)
     THEN LET key == DebounceKey(type, p)
              existingTimer == debounceTimers[key]
              kept == IF existingTimer # 0
                      THEN ClearTimeout(timers, existingTimer)
                      ELSE timers
              timer == [id |-> timerCount + 1, type |-> type, filePath |-> p,
                        language |-> watcherDetectLanguageFromPath(p),
                        remaining |-> debounceMs]
          IN /\ timers' = kept \cup {timer}
             /\ timerCount' = timerCount + 1
             /\ debounceTimers' = [debounceTimers EXCEPT ![key] = timer.id]
             /\ raw' = [raw EXCEPT ![key] = RawSeen(@)]
             /\ UNCHANGED skipped
     ELSE /\ skipped' = skipped \cup {p}
          /\ UNCHANGED <<debounceTimers, timers, timerCount, raw>>
  /\ UNCHANGED <<orchVars, autoVars, pureVars, isWatching, watcher, handles, debounceMs,
                 wcall, emitted>>

\* a debounce timeout expires: its callback deletes the key and calls
\* processFileChange; what this does to the watcher
ProcessFileChange(t) ==
  /\ t \in timers
  /\ t.remaining = 0
  /\ timers' = timers \ {t}
  /\ debounceTimers' = [debounceTimers EXCEPT ![DebounceKey(t.type, t.filePath)] = 0]
  /\ emitted' = emitted \o FileChangeObservations(t)
  /\ UNCHANGED <<skipped, isWatching, watcher, handles, debounceMs,
                 timerCount, wcall, raw>>

\* the timeout of a watcher nobody listens to
DebounceExpired(t) ==
  /\ ProcessFileChange(t)
  /\ UNCHANGED <<orchVars, autoVars, pureVars>>

\* TickMs pass; a timeout never runs before it is due and may run late
Tick ==
  /\ timers' = {[t EXCEPT !.remaining = Max(0, @ - TickMs)] : t \in timers}
  /\ raw' = [k \in DebounceKeys |->
               IF raw[k].n = 0 THEN raw[k]
               ELSE [raw[k] EXCEPT !.since = Min(debounceMs, @ + TickMs)]]
  /\ UNCHANGED <<orchVars, autoVars, pureVars, skipped, isWatching, watcher, handles, debounceMs,
                 debounceTimers, timerCount, wcall, emitted>>

\* ------------------------------------------------------------ the files
KeyNames == <<"a", "b", "c", "d", "e", "f", "g", "h", "i", "j", "k", "l">>

FlatTree(n) == [m \in 1..n |-> Ent(<<KeyNames[m]>>, Str("Hi"))]

Translated(n) == [m \in 1..n |-> Ent(<<KeyNames[m]>>, Str("Salut"))]

NestedTree == <<Ent(<<"a">>, Str("Hi")),
                Ent(<<"n">>, Obj(<<Ent(<<"b">>, Str("Yo"))>>))>>

BaseContents ==
  {Parsable(FlatTree(n)) : n \in 1..MaxKeys} \cup {Parsable(NestedTree), Unparsable}

TargetContents ==
  {Parsable(<<>>),
   Parsable(<<Ent(<<"a">>, Str("Salut")),
              Ent(<<"n">>, Obj(<<Ent(<<"b">>, Str(" "))>>))>>),
   Unparsable}

\* the defaults of the TranslationOrchestrator constructor
DefaultOptions ==
  [batchSize |-> DefaultBatchSize, retryAttempts |-> DefaultRetryAttempts,
   retryDelay |-> DefaultRetryDelay, rateLimitDelay |-> DefaultRateLimitDelay]

\* the constructor called without its options argument (options = {})
NoOptions == [f \in {} |-> 0]

\* this.options = {batchSize: 10, retryAttempts: 3, retryDelay: 1000,
\*                 rateLimitDelay: 100, ..., ...options}
orchestratorOptions(given) ==
  [f \in DOMAIN DefaultOptions |->
     IF f \in DOMAIN given THEN given[f] ELSE DefaultOptions[f]]

\* faulty variant: the Config's batchSize and retryAttempts are handed on
autoOrchestratorOptionsOfConfig(cfg) ==
  orchestratorOptions([batchSize |-> cfg.batchSize,
                       retryAttempts |-> cfg.retryAttempts])

\* this.orchestrator = new TranslationOrchestrator(config)
autoOrchestratorOptions(cfg) == orchestratorOptions(NoOptions)

OptionSets(batchSizes, retries) ==
  {[batchSize |-> b, retryAttempts |-> ra,
    retryDelay |-> DefaultRetryDelay,
    rateLimitDelay |-> DefaultRateLimitDelay] : b \in batchSizes, ra \in retries}

\* the state after construction, with the files and options drawn from the
\* given sets
InitOrchestrator(base, fr, de, optionSet, texts, throws, listeners) ==
  /\ provider = "null"
  /\ setCall = NoSetCall
  /\ providerTexts = texts
  /\ providerThrows \in throws
  /\ isProcessing = FALSE
  /\ currentBatch = 0
  /\ options \in optionSet
  /\ errorListener \in listeners
  /\ files \in {f \in [Files -> base \cup fr \cup de] :
                  f["en"] \in base /\ f["fr"] \in fr /\ f["de"] \in de}
  /\ inv = [i \in Inv |-> IdleInvocation]
  /\ observed = {}

\* no call of start() or stop() of the AutoTranslator has been made; a call:
\* where it stands, the watcher call it awaits, the error it rejected with
\* and the 'started' or 'stopped' observation it emitted
NoLifeCall == [pc |-> "idle", call |-> 0, error |-> "", emitted |-> <<>>]

\* the Config of the README example (batchSize 10, retryAttempts 3)
DefaultConfig ==
  [batchSize |-> DefaultBatchSize, retryAttempts |-> DefaultRetryAttempts]

\* the AutoTranslator after construction: not started
InitAuto ==
  /\ config = DefaultConfig
  /\ autoRunning = FALSE
  /\ autoProcessing = FALSE
  /\ tf = [j \in Inv |-> IdleCall]
  /\ life = NoLifeCall
  /\ delivered = <<>>

\* the TranslationWatcher after construction: not watching, no timer
InitWatch(debounces) ==
  /\ isWatching = FALSE
  /\ watcher = 0
  /\ handles = <<>>
  /\ debounceMs \in debounces
  /\ debounceTimers = [k \in DebounceKeys |-> 0]
  /\ timers = {}
  /\ timerCount = 0
  /\ wcall = [c \in 1..MaxWatchCalls |-> IdleWatchCall]
  /\ emitted = <<>>
  /\ raw = [k \in DebounceKeys |->
             [n |-> 0, since |-> 0, cleared |-> FALSE, rapid |-> TRUE]]
  /\ skipped = {}

\* Names and values of the entries of the trees handed to the diff detector
\* and to the parser: a name may hold dots or be empty, a value is a string,
\* null, undefined or a nested object.
EntryNames == {<<"a">>, <<"b">>, <<"a", "b">>, <<"">>}
EntryValues ==
  {Str("Hi"), Str("hi "), Str(" "), Str(""), Null, UndefinedValue,
   Obj(<<Ent(<<"b">>, Str("Hi"))>>), Obj(<<Ent(<<"a">>, Str("Hi"))>>)}

\* the objects of n entries; the names of one object are distinct
RECURSIVE TreesOfLen(_)
TreesOfLen(n) ==
  IF n = 0 THEN {<<>>}
  ELSE {Append(es, Ent(k, v)) :
          es \in TreesOfLen(n - 1),
          k \in EntryNames, v \in EntryValues} \ 
       {es \in {Append(es, Ent(k, v)) :
                  es \in TreesOfLen(n - 1),
                  k \in EntryNames, v \in EntryValues} :
          \E m \in 1..(n - 1) : es[m].k = es[n].k}

Trees == UNION {TreesOfLen(n) : n \in 0..MaxEntries}

\* no function of the diff detector or of the parser has been called
NoCall ==
  [op |-> "none",
   opts |-> [ignoreCase |-> FALSE, ignoreWhitespace |-> TRUE],
   diff |-> [added |-> <<>>, modified |-> <<>>, removed |-> <<>>,
             unchanged |-> <<>>, totalKeys |-> 0],
   keys |-> <<>>, key |-> <<"">>, value |-> "", thrown |-> FALSE,
   data |-> <<>>, got |-> Undefined,
   pattern |-> [source |-> "a", global |-> FALSE],
   d |-> <<>>, filtered |-> <<>>, merged |-> <<>>, strategy |-> "merge"]

InitTrees(olds, news) ==
  /\ oldData \in olds
  /\ newData \in news
  /\ Len(oldData) + Len(newData) <= MaxEntries
  /\ call = NoCall

vars == <<orchVars, autoVars, watchVars, pureVars>>

\* One orchestrator, called MaxInv times, stopped at any moment.
Init ==
  InitOrchestrator({Parsable(FlatTree(2)), Unparsable},
                   {Parsable(<<>>), Unparsable}, {Parsable(Translated(2))},
                   OptionSets({1}, {1, 2}), {"Tr"}, {TRUE}, {TRUE})
  /\ InitAuto
  /\ InitWatch({DefaultDebounceMs})
  /\ InitTrees({<<>>}, {<<>>})

Next ==
  \/ \E valid \in BOOLEAN : SetProvider("mock", valid)
  \/ Stop
  \/ \E i \in Inv : ProcessFileChanges(i)
  \/ \E i \in Inv : ParseBaseSettled(i)
  \/ \E i \in Inv : ParseTargetSettled(i)
  \/ \E i \in Inv : TranslateResolved(i)
  \/ \E i \in Inv : TranslateRejected(i)
  \/ \E i \in Inv : RetryDelayElapsed(i)
  \/ \E i \in Inv : RateDelayElapsed(i)

Spec == Init /\ [][Next]_vars

\* One processFileChanges call on an orchestrator whose provider is set by
\* the first setProvider call that succeeds and is not replaced, over
\* all files, batch sizes and retry counts within the bounds, and over the
\* larger run with a single attempt per request.
InitRun ==
  /\ \/ InitOrchestrator(BaseContents, TargetContents,
                         {Parsable(<<>>), Unparsable},
                         OptionSets(1..MaxBatchSize, 1..MaxRetry),
                         {"Tr"}, {TRUE}, BOOLEAN)
     \/ InitOrchestrator({Parsable(FlatTree(ExampleKeys))}, {Parsable(<<>>)},
                         {Parsable(<<>>), Unparsable},
                         OptionSets({ExampleBatchSize}, {1}),
                         {"Tr"}, {TRUE}, BOOLEAN)
  /\ InitAuto
  /\ InitWatch({DefaultDebounceMs})
  /\ InitTrees({<<>>}, {<<>>})

NextRun ==
  \/ provider = "null" /\ \E valid \in BOOLEAN : SetProvider("mock", valid)
  \/ Stop
  \/ ProcessFileChanges(1)
  \/ ParseBaseSettled(1)
  \/ ParseTargetSettled(1)
  \/ TranslateResolved(1)
  \/ TranslateRejected(1)
  \/ RetryDelayElapsed(1)
  \/ RateDelayElapsed(1)

SpecRun == InitRun /\ [][NextRun]_vars

\* One orchestrator handed either of two providers, valid or not, at any
\* moment, with one processFileChanges call, stopped at any moment.
InitProvider ==
  /\ InitOrchestrator({Parsable(FlatTree(2)), Unparsable},
                      {Parsable(<<>>), Unparsable}, {Parsable(Translated(2))},
                      OptionSets({1}, {1, 2}), {"Tr"}, {TRUE}, BOOLEAN)
  /\ InitAuto
  /\ InitWatch({DefaultDebounceMs})
  /\ InitTrees({<<>>}, {<<>>})

NextProvider ==
  \/ \E p \in ProviderNames, valid \in BOOLEAN : SetProvider(p, valid)
  \/ Stop
  \/ ProcessFileChanges(1)
  \/ ParseBaseSettled(1)
  \/ ParseTargetSettled(1)
  \/ TranslateResolved(1)
  \/ TranslateRejected(1)
  \/ RetryDelayElapsed(1)
  \/ RateDelayElapsed(1)

SpecProvider == InitProvider /\ [][NextProvider]_vars

\* An AutoTranslator, its private orchestrator built with the default
\* options and no 'error' listener, and MaxInv translateFile calls: small
\* files with a provider that can fail or answer with an empty text, and a
\* base file of one key more than a batch holds with a provider that
\* always answers.
InitTranslator ==
  /\ \/ InitOrchestrator(
          {Parsable(FlatTree(1)), Parsable(NestedTree), Unparsable},
          {Parsable(<<>>), Unparsable, Missing,
           Parsable(<<Ent(<<"a">>, Str(" "))>>)},
          {Parsable(<<>>), Unparsable, Missing},
          OptionSets({DefaultBatchSize}, {DefaultRetryAttempts}),
          TranslatedTexts, BOOLEAN, {FALSE})
     \/ InitOrchestrator(
          {Parsable(FlatTree(DefaultBatchSize + 1))},
          {Parsable(<<>>)}, {Missing},
          OptionSets({DefaultBatchSize}, {DefaultRetryAttempts}),
          {"Tr"}, {FALSE}, {FALSE})
  /\ InitAuto
  /\ InitWatch({DefaultDebounceMs})
  /\ InitTrees({<<>>}, {<<>>})

NextTranslator ==
  \/ AutoStart
  \/ \E j \in Inv : TranslateFile(j)
  \/ \E j \in Inv : TargetFilesListed(j)
  \/ \E j \in Inv : ProcessSettled(j)
  \/ \E j \in Inv : TargetFilesUpdated(j)
  \/ \E i \in Inv : ParseBaseSettled(i)
  \/ \E i \in Inv : ParseTargetSettled(i)
  \/ \E i \in Inv : TranslateResolved(i)
  \/ \E i \in Inv : TranslateRejected(i)
  \/ \E i \in Inv : RetryDelayElapsed(i)
  \/ \E i \in Inv : RateDelayElapsed(i)

SpecTranslator == InitTranslator /\ [][NextTranslator]_vars

\* ------------------------------------------------- orchestrator properties
\* the batch events of one target's history, in order
BatchEventsOf(run) == SelectSeq(run.events, LAMBDA e : e.kind = "batch")

\* the number of batches whose processBatch has completed
CompletedBatches(i) ==
  SumLen([n \in 1..Len(inv[i].runs) |-> BatchEventsOf(inv[i].runs[n])], 1)


\* C1: at most one processFileChanges invocation is in flight, over all
\* interleavings of processFileChanges and stop() calls.
C1_AtMostOneInFlight == Cardinality({i \in Inv : InFlight(i)}) <= 1

\* C2: a returned invocation's batches hold a response for every key that
\* was selected for translation, and as many batches as were executed.
C2_ReturnsEveryBatch ==
  \A i \in Inv :
    inv[i].pc = "returned" =>
      /\ Len(inv[i].batches) = CompletedBatches(i)
      /\ \A n \in 1..Len(inv[i].runs) : \A m \in 1..Len(inv[i].runs[n].keys) :
           \E b \in 1..Len(inv[i].batches) :
             \E x \in 1..Len(inv[i].batches[b].responses) :
               /\ inv[i].batches[b].responses[x].key = inv[i].runs[n].keys[m]
               /\ inv[i].batches[b].responses[x].targetLanguage =
                    inv[i].runs[n].file

\* a batch that processBatch has returned
BatchIsComplete(b) ==
  /\ Len(b.responses) = Len(b.requests)
  /\ \A n \in 1..Len(b.requests) :
       /\ b.responses[n].key = b.requests[n].key
       /\ b.responses[n].success \in BOOLEAN
  /\ b.successCount + b.errorCount = Len(b.requests)
  /\ b.successCount =
       Cardinality({n \in 1..Len(b.responses) : b.responses[n].success})

\* C3: processBatch never throws and yields one response per request, in
\* request order, with successCount + errorCount = N: every batch started
\* is either still executing, with one response per request handled so far,
\* or has completed with N responses.
C3_BatchCompleteness ==
  \A i \in Inv :
    LET r == inv[i]
        executing == r.pc \in {"translate", "retryDelay"}
    IN /\ r.started = CompletedBatches(i) + (IF executing THEN 1 ELSE 0)
       /\ \A n \in 1..Len(r.pairBatches) : BatchIsComplete(r.pairBatches[n])
       /\ \A n \in 1..Len(r.batches) : BatchIsComplete(r.batches[n])
       /\ executing =>
            /\ Len(r.batch.responses) = r.ri - 1
            /\ r.ri <= Len(r.batch.requests)
            /\ \A n \in 1..Len(r.batch.responses) :
                 r.batch.responses[n].key = r.batch.requests[n].key
            /\ r.batch.successCount + r.batch.errorCount = r.ri - 1

\* C3 witness: a returned batch in which a failed request is followed by a
\* request that succeeded
C3_Witness ==
  \E i \in Inv : \E n \in 1..Len(inv[i].batches) :
    LET b == inv[i].batches[n]
    IN /\ Len(b.responses) >= 2
       /\ ~b.responses[1].success
       /\ b.responses[2].success
       /\ inv[i].pc = "returned"

\* the delays awaited before attempts 2..n
Backoff(n) == [a \in 1..(n - 1) |-> options.retryDelay * a]

\* C5: a request whose every attempt threw was tried retryAttempts times,
\* with waits retryDelay * 1 .. retryDelay * (retryAttempts - 1) and none
\* after the last attempt, and its response carries the last error; a
\* request that succeeded on attempt j was tried j times.
C5_RetryBound ==
  \A i \in Inv :
    LET l == inv[i].last
    IN l.n > 0 =>
         IF l.response.success
         THEN /\ l.calls = Len(l.thrown) + 1
              /\ l.calls <= options.retryAttempts
              /\ l.waits = Backoff(l.calls)
         ELSE /\ l.calls = options.retryAttempts
              /\ Len(l.thrown) = options.retryAttempts
              /\ l.waits = Backoff(options.retryAttempts)
              /\ l.response.error = l.thrown[Len(l.thrown)]
              /\ l.response.translatedText = ""

\* C5 witness: retryAttempts = 3, three failed calls, waits of 1000 and 2000
C5_Witness ==
  \E i \in Inv :
    /\ options.retryAttempts = 3
    /\ inv[i].last.n > 0
    /\ ~inv[i].last.response.success
    /\ inv[i].last.calls = 3
    /\ inv[i].last.waits = <<1000, 2000>>
    /\ inv[i].last.response.error = "E3"

\* the history of a target with keys `keys`: ceil(k/b) batches of b keys (the
\* last one possibly shorter), a delay after each batch but the last
ExpectedEvents(keys, b, ms) ==
  LET k == Len(keys)
      nb == (k + b - 1) \div b
  IN [e \in 1..(2 * nb - 1) |->
        IF e % 2 = 1
        THEN [kind |-> "batch", ms |-> 0,
              keys |-> Slice(keys, ((e - 1) \div 2) * b, ((e - 1) \div 2) * b + b)]
        ELSE [kind |-> "delay", ms |-> ms, keys |-> <<>>]]

IsPrefix(s, t) == Len(s) <= Len(t) /\ \A n \in 1..Len(s) : s[n] = t[n]

\* C6: a target with k > 0 selected keys is processed as ceil(k/b) batches,
\* in selection order, with a rate-limit delay after every batch but the
\* last.
C6_BatchesAndDelays ==
  \A i \in Inv : \A n \in 1..Len(inv[i].runs) :
    LET run == inv[i].runs[n]
        expected == ExpectedEvents(run.keys, options.batchSize,
                                   options.rateLimitDelay)
    IN IF Len(run.keys) = 0
       THEN run.events = <<>>
       ELSE IF run.done THEN run.events = expected
            ELSE IsPrefix(run.events, expected) /\ run.events # expected

\* C6 witness: ExampleKeys keys in batches of ExampleBatchSize (5 keys in
\* batches of 2, 2 and 1 with a delay after the first and the second)
C6_Witness ==
  \E i \in Inv : \E n \in 1..Len(inv[i].runs) :
    LET run == inv[i].runs[n]
        nb == (ExampleKeys + ExampleBatchSize - 1) \div ExampleBatchSize
    IN /\ run.done
       /\ options.batchSize = ExampleBatchSize
       /\ Len(run.keys) = ExampleKeys
       /\ nb > 1
       /\ Len(BatchEventsOf(run)) = nb
       /\ Len(run.events) = 2 * nb - 1
       /\ run.events[2].kind = "delay"
       /\ run.events[Len(run.events)].kind = "batch"
       /\ Len(run.events[Len(run.events)].keys) =
            ExampleKeys - (nb - 1) * ExampleBatchSize

\* C10: after stop() is called during an invocation, at most one more batch
\* of that invocation completes.
C10_AtMostOneBatchAfterStop == \A i \in Inv : inv[i].afterStop <= 1

\* ---------------------------------------------------- translator properties
\* C4: when parsing one of several target files fails, the failure is
\* observed, the other targets are still processed and the call returns
\* their batches instead of rejecting, also under AutoTranslator.translateFile.
C4_BadTargetSkipped ==
  \A i \in Inv :
    (inv[i].pc \in {"returned", "rejected"} /\ Len(inv[i].failed) > 0) =>
      /\ inv[i].pc = "returned"
      /\ \A n \in 1..Len(inv[i].failed) : inv[i].failed[n] \in observed
      /\ \A t \in 1..Len(inv[i].targets) :
           \/ \E n \in 1..Len(inv[i].failed) : inv[i].failed[n] = inv[i].targets[t]
           \/ \E n \in 1..Len(inv[i].runs) : inv[i].runs[n].file = inv[i].targets[t]

\* C7: after a translateFile run whose provider calls all succeeded with
\* non-blank text and whose batches were written back, a second run on the
\* same files returns no batch.
C7_IdempotentRerun ==
  ( /\ tf[1].pc = "resolved" /\ tf[1].result.success
    /\ inv[1].pc = "returned" /\ inv[1].clean
    /\ inv[2].pc = "returned" /\ inv[2].clean )
  => inv[2].batches = <<>>

\* One watcher: started and stopped, raw events, timers, the clock.
InitWatcher ==
  /\ InitOrchestrator({Parsable(FlatTree(1))}, {Parsable(<<>>)}, {Missing},
                      OptionSets({DefaultBatchSize}, {DefaultRetryAttempts}),
                      {"Tr"}, {FALSE}, {FALSE})
  /\ InitAuto
  /\ InitWatch({DefaultDebounceMs})
  /\ InitTrees({<<>>}, {<<>>})

NextWatcher ==
  \/ \E c \in 1..MaxWatchCalls : WatcherStart(c)
  \/ \E c \in 1..MaxWatchCalls, kind \in PathKinds : WatchPathValidated(c, kind)
  \/ \E c \in 1..MaxWatchCalls : WatcherStop(c)
  \/ \E h \in 1..MaxWatchCalls : HandleClosed(h, TRUE)
  \/ \E c \in 1..MaxWatchCalls : WatcherStopResumed(c)
  \/ \E h \in 1..MaxWatchCalls, type \in EventTypes, p \in WatchedPaths :
       /\ RawCount(DebounceKeys) + Cardinality(skipped) < MaxRaw
       /\ RawEvent(h, type, p)
  \/ \E t \in timers : DebounceExpired(t)
  \/ Tick

SpecWatcher == InitWatcher /\ [][NextWatcher]_vars

\* -------------------------------------------------------- watcher properties
\* the positions in emitted of the observations of one kind for a key
ObservationsOf(event, k) ==
  {n \in 1..Len(emitted) :
     /\ emitted[n].event = event
     /\ DebounceKey(emitted[n].data.type, emitted[n].data.filePath) = k}

\* C8: M >= 1 raw events of one type on one base-language file, each less
\* than debounceMs after the one before, give exactly one fileChange
\* observation (and one observation of that type), emitted only when
\* debounceMs have passed since the last of them; until then the one timer of
\* the key is pending.
C8_DebounceCoalesces ==
  \A k \in DebounceKeys :
    (raw[k].n >= 1 /\ raw[k].rapid /\ ~raw[k].cleared) =>
      \/ /\ ObservationsOf("fileChange", k) = {}
         /\ ObservationsOf(k[1], k) = {}
         /\ \E t \in timers :
              /\ t.id = debounceTimers[k]
              /\ t.remaining + raw[k].since = debounceMs
              /\ \A u \in timers :
                   DebounceKey(u.type, u.filePath) = k => u = t
      \/ /\ Cardinality(ObservationsOf("fileChange", k)) = 1
         /\ Cardinality(ObservationsOf(k[1], k)) = 1
         /\ \A n \in ObservationsOf("fileChange", k) :
              /\ emitted[n].data.quiet = debounceMs
              /\ n + 1 \in ObservationsOf(k[1], k)
         /\ debounceTimers[k] = 0
         /\ \A u \in timers : DebounceKey(u.type, u.filePath) # k

C8_Witness ==
  \E k \in DebounceKeys :
    /\ raw[k].n > 1 /\ raw[k].rapid /\ ~raw[k].cleared
    /\ Cardinality(ObservationsOf("fileChange", k)) = 1

\* C9: once stop() has completed and until start() is called again, no
\* fileChange or type observation is emitted.
C9_NoEmissionAfterStop ==
  \A n \in 1..Len(emitted) : ~emitted[n].data.stopped

\* the files of the claim: name matching the configured pattern, a
\* translation-file extension, a language tag, and it is the base language
BaseLanguageFile(p) ==
  /\ FilePatternMatches(p)
  /\ p.ext \in {".json", ".yaml", ".yml", ".js", ".ts"}
  /\ watcherDetectLanguageFromPath(p) # "null"
  /\ watcherDetectLanguageFromPath(p) = BaseLanguage

\* C18: observations are emitted and debounce timers are started only for
\* files that match the pattern, have a translation-file extension and
\* resolve to the base language; raw events for any other file are dropped.
C18_OnlyBaseLanguageFiles ==
  /\ \A n \in 1..Len(emitted) :
       /\ BaseLanguageFile(emitted[n].data.filePath)
       /\ emitted[n].data.language = BaseLanguage
  /\ \A t \in timers : BaseLanguageFile(t.filePath)
  /\ \A k \in DebounceKeys : ~BaseLanguageFile(k[2]) => debounceTimers[k] = 0
  /\ \A p \in skipped : ~BaseLanguageFile(p)

\* raw events for fr.json and for en.md were dropped and one for en.json
\* was observed
C18_Witness ==
  /\ {PathOf("fr"), NotesPath} \subseteq skipped
  /\ \E n \in 1..Len(emitted) : emitted[n].data.filePath = PathOf("en")

\* ------------------------------------- AutoTranslator with its watcher
\* start() and stop() are called one after the other: no call of them is
\* suspended
LifeCallFree ==
  life.pc \in {"idle", "started", "startRejected", "stopped", "stopRejected"}

\* faulty variant: start() without its guard
ActiveNever(running) == FALSE

\* isActive()
Active(running) == running

\* AutoTranslator.start() up to the await of setupProvider()
StartCalled ==
  /\ LifeCallFree
  /\ IF Active(autoRunning)
     THEN life' = [NoLifeCall EXCEPT
                     !.pc = "startRejected",
                     !.error = "Translation manager is already running"]
     ELSE life' = [NoLifeCall EXCEPT !.pc = "provider"]
  /\ UNCHANGED <<orchVars, autoRunning, autoProcessing, tf, delivered,
                 watchVars, pureVars>>

\* setupProvider() settled: orchestrator.setProvider(provider) and the call
\* of watcher.start(), or start() rejects
ProviderSetUp ==
  /\ life.pc = "provider"
  /\ \E supported \in BOOLEAN, valid \in BOOLEAN :
       IF supported /\ valid
       THEN /\ setProvider("mock", valid)
            /\ \E c \in 1..MaxWatchCalls :
                 /\ StartWatching(c)
                 /\ life' = [life EXCEPT !.pc = "watcher", !.call = c]
       ELSE /\ life' = [life EXCEPT
                          !.pc = "startRejected",
                          !.error = IF supported
                                    THEN "Invalid configuration for provider"
                                    ELSE "Unsupported provider type"]
            /\ IF supported THEN setProvider("mock", valid)
               ELSE UNCHANGED <<provider, setCall>>
            /\ UNCHANGED watchVars
  /\ UNCHANGED <<providerTexts, config, providerThrows, isProcessing, currentBatch,
                 options, errorListener, files, inv, observed,
                 autoRunning, autoProcessing, tf, delivered, pureVars>>

\* await this.watcher.start() settled: isRunning = true, or start() rejects
StartResumed ==
  /\ life.pc = "watcher"
  /\ wcall[life.call].pc \in {"resolved", "rejected"}
  /\ IF wcall[life.call].pc = "resolved"
     THEN /\ autoRunning' = TRUE
          /\ life' = [life EXCEPT !.pc = "started", !.emitted = <<"started">>]
     ELSE /\ life' = [life EXCEPT !.pc = "startRejected",
                                  !.error = wcall[life.call].error]
          /\ UNCHANGED autoRunning
  /\ UNCHANGED <<orchVars, autoProcessing, tf, delivered, watchVars, pureVars>>

\* AutoTranslator.stop() up to the await of watcher.stop()
StopCalled ==
  /\ LifeCallFree
  /\ IF ~Active(autoRunning)
     THEN /\ life' = [NoLifeCall EXCEPT !.pc = "stopped"]
          /\ UNCHANGED watchVars
     ELSE \E c \in 1..MaxWatchCalls :
            /\ StopWatching(c)
            /\ life' = [NoLifeCall EXCEPT !.pc = "stopping", !.call = c]
  /\ UNCHANGED <<orchVars, autoRunning, autoProcessing, tf, delivered, pureVars>>

\* faulty variant: a failed stop leaves the manager running
RunningAfterStopAsBefore(running, stopped) == IF stopped THEN FALSE ELSE running

\* this.isRunning = false, after the await and in the catch
RunningAfterStop(running, stopped) == FALSE

\* await this.watcher.stop() settled: isRunning = false, and stop() resolves
\* or rejects with the watcher's error
StopResumed ==
  /\ life.pc = "stopping"
  /\ wcall[life.call].pc \in {"resolved", "rejected"}
  /\ autoRunning' = RunningAfterStop(autoRunning,
                                     wcall[life.call].pc = "resolved")
  /\ IF wcall[life.call].pc = "resolved"
     THEN life' = [life EXCEPT !.pc = "stopped", !.emitted = <<"stopped">>]
     ELSE life' = [life EXCEPT !.pc = "stopRejected",
                               !.error = wcall[life.call].error]
  /\ UNCHANGED <<orchVars, autoProcessing, tf, delivered, watchVars, pureVars>>

\* faulty variant: the listener never translates
AutoTranslateNever(running, translating) == FALSE

\* faulty variant: the translate call in progress is not looked at
AutoTranslateWhileBusy(running, translating) == running

\* if (this.isActive() && !this.isTranslating())
AutoTranslate(running, translating) == running /\ ~translating

\* event.type === "change" && event.language === this.config.baseLanguage
BaseLanguageChange(event) ==
  event.type = "change" /\ event.language = BaseLanguage

\* the watcher's fileChange listener, run with the observation of timer t up
\* to its first await; the entry of `delivered` tells what it saw and did
OnFileChange(t) ==
  LET seen == [type |-> t.type, filePath |-> t.filePath,
               language |-> t.language, running |-> autoRunning,
               busy |-> autoProcessing, announced |-> FALSE, call |-> 0]
  IN IF ~BaseLanguageChange(t)
     THEN /\ delivered' = Append(delivered, seen)
          /\ UNCHANGED <<tf, autoProcessing>>
     ELSE IF ~AutoTranslate(autoRunning, autoProcessing)
     THEN /\ delivered' = Append(delivered, [seen EXCEPT !.announced = TRUE])
          /\ UNCHANGED <<tf, autoProcessing>>
     ELSE \E j \in Inv :
            /\ FreeCall(j)
            /\ translateFile(j, t.filePath)
            /\ delivered' = Append(delivered, [seen EXCEPT !.announced = TRUE,
                                                           !.call = j])

\* a debounce timeout of the AutoTranslator's watcher expires
FileChangeDelivered(t) ==
  /\ ProcessFileChange(t)
  /\ OnFileChange(t)
  /\ UNCHANGED <<orchVars, autoRunning, life, pureVars>>

\* One AutoTranslator: started once and then stopped, raw events on its watcher, manual
\* translateFile calls, and the runs of its orchestrator.
InitCoordinator ==
  /\ InitOrchestrator({Parsable(FlatTree(1))}, {Parsable(<<>>)}, {Missing},
                      OptionSets({DefaultBatchSize}, {DefaultRetryAttempts}),
                      {"Tr"}, {FALSE}, {FALSE})
  /\ InitAuto
  /\ InitWatch({DefaultDebounceMs})
  /\ InitTrees({<<>>}, {<<>>})

NextCoordinator ==
  \/ life.pc = "idle" /\ StartCalled
  \/ ProviderSetUp
  \/ StartResumed
  \/ life.pc = "started" /\ StopCalled
  \/ StopResumed
  \/ \E c \in 1..MaxWatchCalls, kind \in {"directory", "missing"} :
       WatchPathValidated(c, kind)
  \/ \E h \in 1..MaxWatchCalls : HandleClosed(h, TRUE)
  \/ \E c \in 1..MaxWatchCalls : WatcherStopResumed(c)
  \/ \E h \in 1..MaxWatchCalls, type \in EventTypes :
       /\ RawCount(DebounceKeys) < MaxChanges
       /\ RawEvent(h, type, PathOf("en"))
  \/ \E t \in timers : FileChangeDelivered(t)
  \/ Tick
  \/ \E j \in Inv : TranslateFile(j)
  \/ \E j \in Inv : TargetFilesListed(j)
  \/ \E j \in Inv : ProcessSettled(j)
  \/ \E j \in Inv : TargetFilesUpdated(j)
  \/ \E i \in Inv : ParseBaseSettled(i)
  \/ \E i \in Inv : ParseTargetSettled(i)
  \/ \E i \in Inv : TranslateResolved(i)

SpecCoordinator == InitCoordinator /\ [][NextCoordinator]_vars

\* One AutoTranslator whose start() and stop() are called in any order, one
\* call after the other, with a provider set-up, a watch path and a close of
\* the watch handle that can each fail, and manual translateFile calls on
\* files that can be missing or not parse.
InitLifecycle ==
  /\ InitOrchestrator({Parsable(FlatTree(1)), Unparsable},
                      {Parsable(<<>>), Unparsable, Missing}, {Missing},
                      OptionSets({DefaultBatchSize}, {DefaultRetryAttempts}),
                      {"Tr"}, BOOLEAN, {FALSE})
  /\ InitAuto
  /\ InitWatch({DefaultDebounceMs})
  /\ InitTrees({<<>>}, {<<>>})

NextLifecycle ==
  \/ StartCalled
  \/ ProviderSetUp
  \/ StartResumed
  \/ StopCalled
  \/ StopResumed
  \/ \E c \in 1..MaxWatchCalls, kind \in {"directory", "missing"} :
       WatchPathValidated(c, kind)
  \/ \E h \in 1..MaxWatchCalls, ok \in BOOLEAN : HandleClosed(h, ok)
  \/ \E c \in 1..MaxWatchCalls : WatcherStopResumed(c)
  \/ \E j \in Inv : TranslateFile(j)
  \/ \E j \in Inv : TargetFilesListed(j)
  \/ \E j \in Inv : ProcessSettled(j)
  \/ \E j \in Inv : TargetFilesUpdated(j)
  \/ \E i \in Inv : ParseBaseSettled(i)
  \/ \E i \in Inv : ParseTargetSettled(i)
  \/ \E i \in Inv : TranslateResolved(i)
  \/ \E i \in Inv : TranslateRejected(i)
  \/ \E i \in Inv : RetryDelayElapsed(i)

SpecLifecycle == InitLifecycle /\ [][NextLifecycle]_vars

\* An AutoTranslator constructed from a Config with any batchSize and
\* retryAttempts, started, and asked to translate a base file of two keys
\* with a provider that may fail.
Configs ==
  {[batchSize |-> b, retryAttempts |-> ra] :
     b \in {1, DefaultBatchSize}, ra \in {1, DefaultRetryAttempts}}

InitConfig ==
  /\ config \in Configs
  /\ autoRunning = FALSE
  /\ autoProcessing = FALSE
  /\ tf = [j \in Inv |-> IdleCall]
  /\ life = NoLifeCall
  /\ delivered = <<>>
  /\ InitOrchestrator({Parsable(FlatTree(2))}, {Parsable(<<>>)}, {Missing},
                      {autoOrchestratorOptions(config)},
                      {"Tr"}, BOOLEAN, {FALSE})
  /\ InitWatch({DefaultDebounceMs})
  /\ InitTrees({<<>>}, {<<>>})

NextConfig ==
  \/ AutoStart
  \/ \E j \in Inv : TranslateFile(j)
  \/ \E j \in Inv : TargetFilesListed(j)
  \/ \E j \in Inv : ProcessSettled(j)
  \/ \E j \in Inv : TargetFilesUpdated(j)
  \/ \E i \in Inv : ParseBaseSettled(i)
  \/ \E i \in Inv : ParseTargetSettled(i)
  \/ \E i \in Inv : TranslateResolved(i)
  \/ \E i \in Inv : TranslateRejected(i)
  \/ \E i \in Inv : RetryDelayElapsed(i)

SpecConfig == InitConfig /\ [][NextConfig]_vars

\* One processFileChanges invocation on an orchestrator that may be stopped
\* at any moment, in which every awaited file read, provider call and delay
\* completes.
InitTermination ==
  /\ InitOrchestrator({Parsable(FlatTree(2)), Unparsable},
                      {Parsable(<<>>), Unparsable}, {Parsable(<<>>)},
                      OptionSets({1}, {1, 2}),
                      {"Tr"}, BOOLEAN, BOOLEAN)
  /\ InitAuto
  /\ InitWatch({DefaultDebounceMs})
  /\ InitTrees({<<>>}, {<<>>})

NextTermination ==
  \/ provider = "null" /\ SetProvider("mock", TRUE)
  \/ Stop
  \/ ProcessFileChanges(1)
  \/ ParseBaseSettled(1)
  \/ ParseTargetSettled(1)
  \/ TranslateResolved(1)
  \/ TranslateRejected(1)
  \/ RetryDelayElapsed(1)
  \/ RateDelayElapsed(1)

\* each file read, each provider.translate call and each delay completes
Completion ==
  /\ WF_vars(ParseBaseSettled(1))
  /\ WF_vars(ParseTargetSettled(1))
  /\ WF_vars(TranslateResolved(1) \/ TranslateRejected(1))
  /\ WF_vars(RetryDelayElapsed(1))
  /\ WF_vars(RateDelayElapsed(1))

SpecTermination == InitTermination /\ [][NextTermination]_vars /\ Completion

\* what the listener has to do with an observation d
Handled(d) ==
  /\ d.announced
  /\ (d.running /\ ~d.busy) =>
       /\ d.call \in Inv
       /\ tf[d.call].pc \notin {"idle", "rejected"}
       /\ tf[d.call].filePath = d.filePath

DiffOptions == [ignoreCase : BOOLEAN, ignoreWhitespace : BOOLEAN]
KeyPaths == {<<"a">>, <<"a", "b">>, <<"a", "", "b">>, <<"a", "">>, <<"">>}

\* detector.detectDiff(oldData, newData) of a detector built with opts
DetectDiff(opts) ==
  /\ call.op = "none"
  /\ call' = [call EXCEPT !.op = "detectDiff", !.opts = opts,
                          !.diff = detectDiff(oldData, newData, opts)]
  /\ UNCHANGED <<orchVars, autoVars, watchVars, oldData, newData>>

\* detector.getKeysNeedingIncrementalTranslation(baseData, targetData), the
\* base tree being newData and the target tree oldData
SelectIncremental ==
  /\ call.op = "none"
  /\ call' = [call EXCEPT
                !.op = "getKeysNeedingIncrementalTranslation",
                !.keys = getKeysNeedingIncrementalTranslation(newData, oldData)]
  /\ UNCHANGED <<orchVars, autoVars, watchVars, oldData, newData>>

\* parser.setNestedValue(data, key, value) on a copy of newData followed,
\* when it returned, by parser.getNestedValue(data, key)
SetThenGet(key, value) ==
  /\ call.op = "none"
  /\ LET set == parserSetNestedValue(newData, key, value)
     IN call' = [call EXCEPT
                   !.op = "setNestedValue", !.key = key, !.value = value,
                   !.thrown = set.thrown, !.data = set.o,
                   !.got = IF set.thrown THEN Undefined
                           ELSE parserGetNestedValue(set.o, key)]
  /\ UNCHANGED <<orchVars, autoVars, watchVars, oldData, newData>>

\* the options a detector is constructed with when none are given
DefaultDiffOptions == [ignoreCase |-> FALSE, ignoreWhitespace |-> TRUE]

\* the keys of an object in insertion order: a key written again keeps
\* its place
RECURSIVE InsertionOrder(_, _)
InsertionOrder(keys, n) ==
  IF n = 0 THEN <<>>
  ELSE LET before == InsertionOrder(keys, n - 1)
       IN IF Includes(before, keys[n]) THEN before ELSE Append(before, keys[n])

\* the details object of detectDiff: its keys in insertion order, each with
\* the change type written last
detectDiffDetails(oldData_, newData_, opts) ==
  LET oldKeys == extractAllKeys(oldData_)
      newKeys == extractAllKeys(newData_)
      removed == SelectSeq(oldKeys, LAMBDA key : ~Includes(newKeys, key))
      keys == InsertionOrder(newKeys \o removed, Len(newKeys) + Len(removed))
  IN [n \in 1..Len(keys) |->
        [key |-> keys[n],
         changeType |-> IF Includes(newKeys, keys[n])
                        THEN changeType(oldData_, newData_, keys[n], opts)
                        ELSE "removed"]]

\* the DiffResult of detectDiff: the four lists, the summary and the details
detectDiffResult(oldData_, newData_, opts) ==
  LET diff == detectDiff(oldData_, newData_, opts)
  IN [added |-> diff.added, modified |-> diff.modified,
      removed |-> diff.removed, unchanged |-> diff.unchanged,
      totalKeys |-> diff.totalKeys,
      addedCount |-> Len(diff.added), modifiedCount |-> Len(diff.modified),
      removedCount |-> Len(diff.removed),
      unchangedCount |-> Len(diff.unchanged),
      details |-> detectDiffDetails(oldData_, newData_, opts)]

\* the characters of a key path: its segments joined by dots (a segment of
\* the model is one character or empty)
RECURSIVE KeyChars(_, _)
KeyChars(key, n) ==
  IF n > Len(key) THEN <<>>
  ELSE (IF n > 1 THEN <<".">> ELSE <<>>)
       \o (IF key[n] = "" THEN <<>> ELSE <<key[n]>>)
       \o KeyChars(key, n + 1)

\* the patterns handed to filterDiffByPattern: a string, compiled by
\* new RegExp(pattern), or a RegExp, which may carry the global flag; the
\* source is one literal character
Patterns == [source : {"a", "b"}, global : BOOLEAN]

\* regex.test(key) with regex.lastIndex = lastIndex: whether it matched and
\* the lastIndex it leaves; a regex without the global flag searches from 0
\* and leaves lastIndex alone
regexTest(regex, lastIndex, key) ==
  LET chars == KeyChars(key, 1)
      from == IF regex.global THEN lastIndex ELSE 0
      hits == {i \in (from + 1)..Len(chars) : chars[i] = regex.source}
      first == CHOOSE i \in hits : \A j \in hits : i <= j
  IN IF hits = {}
     THEN [matched |-> FALSE, lastIndex |-> IF regex.global THEN 0 ELSE lastIndex]
     ELSE [matched |-> TRUE,
           lastIndex |-> IF regex.global THEN first ELSE lastIndex]

\* keys.filter(key => regex.test(key)) from element n on: the keys kept and
\* the lastIndex of the regex afterwards
RECURSIVE filterKeys(_, _, _, _)
filterKeys(keys, n, regex, lastIndex) ==
  IF n > Len(keys) THEN [keys |-> <<>>, lastIndex |-> lastIndex]
  ELSE LET test == regexTest(regex, lastIndex, keys[n])
           rest == filterKeys(keys, n + 1, regex, test.lastIndex)
       IN [keys |-> IF test.matched THEN <<keys[n]>> \o rest.keys
                    ELSE rest.keys,
           lastIndex |-> rest.lastIndex]

filterDiffByPattern(diffResult, regex) ==
  LET added == filterKeys(diffResult.added, 1, regex, 0)
      modified == filterKeys(diffResult.modified, 1, regex, added.lastIndex)
      removed == filterKeys(diffResult.removed, 1, regex, modified.lastIndex)
      unchanged ==
        filterKeys(diffResult.unchanged, 1, regex, removed.lastIndex)
      detailKeys ==
        filterKeys([n \in 1..Len(diffResult.details) |->
                      diffResult.details[n].key],
                   1, regex, unchanged.lastIndex)
  IN [added |-> added.keys, modified |-> modified.keys,
      removed |-> removed.keys, unchanged |-> unchanged.keys,
      totalKeys |-> Len(added.keys) + Len(modified.keys)
                    + Len(unchanged.keys),
      addedCount |-> Len(added.keys), modifiedCount |-> Len(modified.keys),
      removedCount |-> Len(removed.keys),
      unchangedCount |-> Len(unchanged.keys),
      details |-> SelectSeq(diffResult.details,
                            LAMBDA detail : Includes(detailKeys.keys,
                                                     detail.key))]

\* detector.filterDiffByPattern(detector.detectDiff(oldData, newData),
\* pattern) of a detector built with the default options; filter and the
\* loop over Object.keys write to new objects only, so the DiffResult
\* handed in is afterwards what it was
FilterDiffByPattern(pattern) ==
  /\ call.op = "none"
  /\ LET d == detectDiffResult(oldData, newData, DefaultDiffOptions)
     IN call' = [call EXCEPT !.op = "filterDiffByPattern",
                             !.opts = DefaultDiffOptions,
                             !.pattern = pattern, !.d = d,
                             !.filtered = filterDiffByPattern(d, pattern)]
  /\ UNCHANGED <<orchVars, autoVars, watchVars, oldData, newData>>

detectNewKeys(oldData_, newData_) ==
  LET oldKeys == extractAllKeys(oldData_)
      newKeys == extractAllKeys(newData_)
  IN SelectSeq(newKeys, LAMBDA key : ~Includes(oldKeys, key))

detectModifiedKeys(oldData_, newData_, opts) ==
  LET oldKeys == extractAllKeys(oldData_)
      newKeys == extractAllKeys(newData_)
  IN SelectSeq(newKeys,
       LAMBDA key :
         /\ Includes(oldKeys, key)
         /\ valuesAreDifferent(OrEmpty(getNestedValue(oldData_, key)),
                               OrEmpty(getNestedValue(newData_, key)), opts))

\* detector.detectNewKeys(oldData, newData)
DetectNewKeys ==
  /\ call.op = "none"
  /\ call' = [call EXCEPT !.op = "detectNewKeys",
                          !.keys = detectNewKeys(oldData, newData)]
  /\ UNCHANGED <<orchVars, autoVars, watchVars, oldData, newData>>

\* detector.detectModifiedKeys(oldData, newData) of a detector built with opts
DetectModifiedKeys(opts) ==
  /\ call.op = "none"
  /\ call' = [call EXCEPT !.op = "detectModifiedKeys", !.opts = opts,
                          !.keys = detectModifiedKeys(oldData, newData, opts)]
  /\ UNCHANGED <<orchVars, autoVars, watchVars, oldData, newData>>

\* index of the entry of that name in an object, 0 when `key in obj` is false
IndexOfName(es, name) ==
  LET hits == {n \in 1..Len(es) : es[n].k = name}
  IN IF hits = {} THEN 0 ELSE CHOOSE n \in hits : TRUE

\* typeof v === 'object', which holds of null
TypeofObject(v) == v.t \in {"obj", "null"}

\* !(key in result)
KeyAbsent(result, key) == IndexOfName(result, key) = 0

\* mergeTranslations from entry n of updates on, result being the copy of
\* base as updated so far: the object returned, or thrown when
\* Object.entries is called on null
RECURSIVE mergeFrom(_, _, _, _)
mergeFrom(result, updates, n, strategy) ==
  IF n > Len(updates) THEN [thrown |-> FALSE, o |-> result]
  ELSE LET key == updates[n].k
           value == updates[n].v
           at == IndexOfName(result, key)
           set(node) == IF at # 0 THEN [result EXCEPT ![at].v = node]
                        ELSE Append(result, Ent(key, node))
       IN CASE strategy = "replace" ->
                 mergeFrom(set(value), updates, n + 1, strategy)
            [] strategy = "merge" ->
                 IF TypeofObject(value) /\ at # 0 /\ TypeofObject(result[at].v)
                 THEN IF value.t = "null" THEN [thrown |-> TRUE, o |-> result]
                      ELSE LET inner == mergeFrom(result[at].v.o, value.o, 1,
                                                  strategy)
                           IN IF inner.thrown
                              THEN [thrown |-> TRUE, o |-> result]
                              ELSE mergeFrom(set(Obj(inner.o)), updates, n + 1,
                                             strategy)
                 ELSE mergeFrom(set(value), updates, n + 1, strategy)
            [] OTHER ->
                 mergeFrom(IF KeyAbsent(result, key) THEN set(value)
                           ELSE result,
                           updates, n + 1, strategy)

mergeTranslations(base, updates, strategy) ==
  mergeFrom(base, updates, 1, strategy)

MergeStrategies == {"replace", "merge", "preserve"}

\* parser.mergeTranslations(base, updates, strategy), base being oldData and
\* updates newData
MergeTranslations(strategy) ==
  /\ call.op = "none"
  /\ LET merge == mergeTranslations(oldData, newData, strategy)
     IN call' = [call EXCEPT !.op = "mergeTranslations",
                             !.strategy = strategy,
                             !.thrown = merge.thrown, !.merged = merge.o]
  /\ UNCHANGED <<orchVars, autoVars, watchVars, oldData, newData>>

\* the key paths handed to getNestedValue and then to setNestedValue
RoundTripKeys == KeyPaths \cup {<<"b">>, <<"", "b">>}

\* parser.setNestedValue(data, key, parser.getNestedValue(data, key)) on a
\* copy of newData, for a key at which getNestedValue finds a string
GetThenSet(key) ==
  /\ call.op = "none"
  /\ parserGetNestedValue(newData, key).def
  /\ LET got == parserGetNestedValue(newData, key)
         set == parserSetNestedValue(newData, key, got.s)
     IN call' = [call EXCEPT
                   !.op = "getThenSet", !.key = key, !.got = got,
                   !.value = got.s, !.thrown = set.thrown,
                   !.data = IF set.thrown THEN newData ELSE set.o]
  /\ UNCHANGED <<orchVars, autoVars, watchVars, oldData, newData>>

InitTree ==
  /\ InitOrchestrator({Parsable(FlatTree(1))}, {Parsable(<<>>)}, {Missing},
                      OptionSets({DefaultBatchSize}, {DefaultRetryAttempts}),
                      {"Tr"}, {FALSE}, {FALSE})
  /\ InitAuto
  /\ InitWatch({DefaultDebounceMs})
  /\ InitTrees(Trees, Trees)

NextTree ==
  \/ \E opts \in DiffOptions : DetectDiff(opts)
  \/ SelectIncremental
  \/ \E key \in KeyPaths : SetThenGet(key, "Tr")
  \/ \E pattern \in Patterns : FilterDiffByPattern(pattern)
  \/ DetectNewKeys
  \/ \E opts \in DiffOptions : DetectModifiedKeys(opts)
  \/ \E strategy \in MergeStrategies : MergeTranslations(strategy)
  \/ \E key \in RoundTripKeys : GetThenSet(key)

SpecTree == InitTree /\ [][NextTree]_vars

\* the value a tree holds at a key path, reached segment by segment
Absent == [t |-> "absent", s |-> "", o |-> <<>>]

RECURSIVE NodeFrom(_, _, _)
NodeFrom(current, keys, n) ==
  IF n > Len(keys) THEN current
  ELSE IF current.t = "obj" /\ IndexOfKey(current.o, keys[n]) # 0
       THEN NodeFrom(current.o[IndexOfKey(current.o, keys[n])].v, keys, n + 1)
       ELSE Absent

NodeAt(data, key) == NodeFrom(Obj(data), key, 1)

RECURSIVE LeafPathsFrom(_, _, _)
LeafPathsFrom(data, prefix, top) ==
  UNION {LET path == IF top THEN data[n].k ELSE prefix \o data[n].k
         IN IF data[n].v.t = "str" THEN {path}
            ELSE IF data[n].v.t = "obj"
                 THEN LeafPathsFrom(data[n].v.o, path, FALSE)
                 ELSE {} : n \in 1..Len(data)}

LeafPaths(data) == LeafPathsFrom(data, <<>>, TRUE)

Range(seq) == {seq[n] : n \in 1..Len(seq)}
NoDuplicates(seq) == \A m, n \in 1..Len(seq) : seq[m] = seq[n] => m = n

\* C15: the added, modified, removed and unchanged lists of detectDiff(A, B)
\* are pairwise disjoint, hold no key path twice and together hold exactly
\* the leaf key paths of A and B.
C15_DiffPartitions ==
  call.op = "detectDiff" =>
    LET lists == <<call.diff.added, call.diff.modified,
                   call.diff.removed, call.diff.unchanged>>
        keys == LeafPaths(oldData) \cup LeafPaths(newData)
    IN /\ \A m, n \in 1..4 : m # n => Range(lists[m]) \cap Range(lists[n]) = {}
       /\ \A m \in 1..4 : NoDuplicates(lists[m])
       /\ UNION {Range(lists[m]) : m \in 1..4} = keys
       /\ SumLen(lists, 1) = Cardinality(keys)

\* the strings a tree holds at a leaf key path
RECURSIVE LeavesFrom(_, _, _)
LeavesFrom(data, prefix, top) ==
  UNION {LET path == IF top THEN data[n].k ELSE prefix \o data[n].k
         IN IF data[n].v.t = "str" THEN {[key |-> path, s |-> data[n].v.s]}
            ELSE IF data[n].v.t = "obj"
                 THEN LeavesFrom(data[n].v.o, path, FALSE)
                 ELSE {} : n \in 1..Len(data)}

Leaves(data) == LeavesFrom(data, <<>>, TRUE)

\* a string after the configured case and whitespace normalisation
Normalised(s, opts) ==
  LET cased == IF opts.ignoreCase THEN ToLowerCase(s) ELSE s
  IN IF opts.ignoreWhitespace THEN Trim(cased) ELSE cased

ValuesDiffer(old, new, key, opts) ==
  \E o \in Leaves(old), n \in Leaves(new) :
    o.key = key /\ n.key = key /\ Normalised(o.s, opts) # Normalised(n.s, opts)

\* C16: detectDiff(old, new) lists a leaf key path of new as added iff it is
\* absent from old, as modified iff it is present in old and the normalised
\* values differ, as unchanged otherwise; a leaf key path of old absent from
\* new is listed as removed; an empty string counts as present.
C16_Classification ==
  call.op = "detectDiff" =>
    /\ \A key \in LeafPaths(newData) :
         LET present == key \in LeafPaths(oldData)
             differ == ValuesDiffer(oldData, newData, key, call.opts)
         IN /\ Includes(call.diff.added, key) <=> ~present
            /\ Includes(call.diff.modified, key) <=> (present /\ differ)
            /\ Includes(call.diff.unchanged, key) <=> (present /\ ~differ)
    /\ \A key \in LeafPaths(oldData) \ LeafPaths(newData) :
         Includes(call.diff.removed, key)

\* C17: getKeysNeedingIncrementalTranslation(B, T) holds key path k iff k is
\* a leaf key path of B and T holds no string at k or a string that is empty
\* after trimming.
C17_IncrementalSelection ==
  call.op = "getKeysNeedingIncrementalTranslation" =>
    \A key \in LeafPaths(newData) \cup LeafPaths(oldData) \cup Range(call.keys) :
      Includes(call.keys, key) <=>
        /\ key \in LeafPaths(newData)
        /\ \A t \in Leaves(oldData) : t.key = key => Trim(t.s) = ""

\* C19: for every tree, key path p and string v, get(tree, p) evaluated
\* after set(tree, p, v) yields v, also when intermediate segments of p are
\* missing or hold a value that is not an object.
C19_GetAfterSet ==
  call.op = "setNestedValue" =>
    /\ ~call.thrown
    /\ call.got = Defined(call.value)

\* C12: translateFile rejects with 'Translation manager is not running' when
\* the coordinator is Stopped and with 'Translation already in progress' when
\* it is Running and another translate call is Busy; a rejected call starts
\* no orchestrator run and leaves the Running and Busy flags unchanged.
C12_TranslateFileGuards ==
  /\ [](\A j \in Inv : tf[j].pc = "rejected" => inv[j].pc = "idle")
  /\ [][\A j \in Inv :
         (tf[j].pc = "idle" /\ tf'[j].pc # "idle"
            /\ (~autoRunning \/ autoProcessing)) =>
           /\ tf'[j].pc = "rejected"
           /\ tf'[j].error = IF ~autoRunning
                             THEN "Translation manager is not running"
                             ELSE "Translation already in progress"
           /\ autoRunning' = autoRunning
           /\ autoProcessing' = autoProcessing
           /\ inv' = inv
           /\ isProcessing' = isProcessing]_vars

\* a translateFile call has been rejected while another one is in progress
C12_Witness ==
  \E j, k \in Inv :
    /\ tf[j].pc = "rejected"
    /\ tf[j].error = "Translation already in progress"
    /\ tf[k].pc \in {"listing", "processing", "updating"}
    /\ autoRunning /\ autoProcessing

\* the keys of the batches completed for one target, in order
RECURSIVE KeysOfBatches(_, _)
KeysOfBatches(events, n) ==
  IF n > Len(events) THEN <<>>
  ELSE events[n].keys \o KeysOfBatches(events, n + 1)

\* C14: within one processFileChanges invocation at most one
\* provider.translate call is outstanding, a request's call starts only after
\* the response of the previous request was appended, and a target is
\* started only after every batch of the previous target has completed.
C14_StrictlySequential ==
  \A i \in Inv :
    /\ inv[i].outstanding <= 1
    /\ inv[i].outstanding = 1 <=> inv[i].pc = "translate"
    /\ inv[i].pc \in {"translate", "retryDelay"} =>
         Len(inv[i].batch.responses) = inv[i].ri - 1
    /\ \A n \in 1..(Len(inv[i].runs) - 1) :
         /\ inv[i].runs[n].done
         /\ KeysOfBatches(BatchEventsOf(inv[i].runs[n]), 1) = inv[i].runs[n].keys

\* the second request of a batch of the second target is outstanding, the
\* first target having taken two batches
C14_Witness ==
  \E i \in Inv :
    /\ Len(inv[i].runs) = 2
    /\ Len(BatchEventsOf(inv[i].runs[1])) >= 2
    /\ inv[i].pc = "translate"
    /\ inv[i].ri = 2
    /\ inv[i].outstanding = 1

\* C13: when a translate run writes back, each target tree then holds
\* translatedText at the key path of every successful response of the run
\* for that language, and every other leaf key path the target file had
\* before keeps its value.
C13_WriteBack ==
  [][\A j \in Inv :
       (tf[j].pc = "updating" /\ tf'[j].pc = "resolved") =>
         \A t \in 1..Len(tf[j].targetFiles) :
           LET lang == tf[j].targetFiles[t]
               successful == SelectSeq(inv[j].responses,
                               LAMBDA r : r.success /\ r.targetLanguage = lang)
           IN /\ \A n \in 1..Len(successful) :
                   getNestedValue(files'[lang].data, successful[n].key) =
                     Defined(successful[n].translatedText)
              /\ \A leaf \in Leaves(files[lang].data) :
                   (\A n \in 1..Len(successful) : successful[n].key # leaf.key) =>
                     leaf \in Leaves(files'[lang].data)]_vars

\* a key path matches a pattern when the pattern's character occurs in it
Matches(pattern, key) == Includes(KeyChars(key, 1), pattern.source)

\* C21: filterDiffByPattern(d, pattern) returns a DiffResult whose four
\* lists are exactly the key paths of d's lists that match the pattern, in
\* the same order, whose counts are recomputed from the filtered lists and
\* whose details hold only matching keys; d itself is left unchanged.
C21_FilterByPattern ==
  call.op = "filterDiffByPattern" =>
    LET d == detectDiffResult(oldData, newData, call.opts)
        matching(keys) ==
          SelectSeq(keys, LAMBDA key : Matches(call.pattern, key))
        f == call.filtered
    IN /\ f.added = matching(d.added)
       /\ f.modified = matching(d.modified)
       /\ f.removed = matching(d.removed)
       /\ f.unchanged = matching(d.unchanged)
       /\ f.addedCount = Len(f.added)
       /\ f.modifiedCount = Len(f.modified)
       /\ f.removedCount = Len(f.removed)
       /\ f.unchangedCount = Len(f.unchanged)
       /\ f.totalKeys = Len(f.added) + Len(f.modified) + Len(f.unchanged)
       /\ \A n \in 1..Len(f.details) :
            /\ Matches(call.pattern, f.details[n].key)
            /\ Includes(d.details, f.details[n])
       /\ call.d = d

\* C21 for the patterns without the global flag
C21_FilterByPatternNotGlobal ==
  (call.op = "filterDiffByPattern" /\ ~call.pattern.global) =>
    C21_FilterByPattern

\* C22: for all trees old and new, detectNewKeys(old, new) equals
\* detectDiff(old, new).diff.added and detectModifiedKeys(old, new) equals
\* detectDiff(old, new).diff.modified, as ordered lists.
C22_ProjectionsOfDetectDiff ==
  /\ call.op = "detectNewKeys" =>
       call.keys = detectDiff(oldData, newData, call.opts).added
  /\ call.op = "detectModifiedKeys" =>
       call.keys = detectDiff(oldData, newData, call.opts).modified

\* no entry of the tree, at any depth, has a name that is empty or holds a
\* dot
RECURSIVE PlainNames(_)
PlainNames(data) ==
  \A n \in 1..Len(data) :
    /\ Len(data[n].k) = 1 /\ data[n].k # <<"">>
    /\ data[n].v.t = "obj" => PlainNames(data[n].v.o)

\* C22 for trees whose names are not empty and hold no dot
C22_ProjectionsPlainNames ==
  (PlainNames(oldData) /\ PlainNames(newData)) => C22_ProjectionsOfDetectDiff

\* C23: setProvider(p) throws a configuration error when
\* p.validateConfig(config) is false, leaving the stored provider unchanged
\* and emitting no providerChanged observation; otherwise it stores p and
\* emits exactly one providerChanged observation naming p.
C23_SetProvider ==
  [][setCall' # setCall =>
       IF setCall'.valid
       THEN /\ ~setCall'.thrown
            /\ provider' = setCall'.provider
            /\ setCall'.emitted = <<[type |-> "providerChanged",
                                     provider |-> setCall'.provider]>>
       ELSE /\ setCall'.thrown
            /\ setCall'.error = "Invalid configuration for provider"
            /\ provider' = provider
            /\ setCall'.emitted = <<>>]_vars

\* a provider is stored and setProvider has then thrown for another one
C23_Witness ==
  /\ provider = "mock"
  /\ setCall.provider = "local"
  /\ setCall.thrown

\* C24: processFileChanges called with no provider set fails with 'No
\* translation provider configured' and leaves the orchestrator Idle; an
\* accepted invocation moves Idle -> Processing and always ends by resetting
\* the state to Idle, whether it returns batches or rejects because the base
\* file cannot be parsed.
C24_IdleProcessingIdle ==
  [][\A i \in Inv :
       /\ (inv[i].pc = "idle" /\ inv'[i].pc # "idle" /\ provider = "null") =>
            /\ inv'[i].pc = "rejected"
            /\ inv'[i].error = "No translation provider configured"
            /\ ~isProcessing /\ ~isProcessing'
       /\ (inv[i].pc = "idle" /\ InFlight(i)') =>
            ~isProcessing /\ isProcessing'
       /\ (InFlight(i) /\ inv'[i].pc \in {"returned", "rejected"}) =>
            ~isProcessing']_vars

\* an accepted invocation has rejected because the base file does not parse
C24_Witness ==
  /\ inv[1].pc = "rejected"
  /\ inv[1].error = "Failed to parse file"
  /\ ~isProcessing

\* C25: start() rejects with 'Translation manager is already running' when
\* the coordinator is Running; when the provider set-up (unsupported type or
\* invalid configuration) or the watcher start fails, start() rejects and the
\* coordinator does not enter the Running state: isActive() stays false and
\* no 'started' observation is emitted.
C25_StartRejections ==
  [][/\ (LifeCallFree /\ autoRunning /\ life' # life
           /\ life'.pc \in {"provider", "startRejected"}) =>
          /\ life'.pc = "startRejected"
          /\ life'.error = "Translation manager is already running"
          /\ life'.emitted = <<>>
          /\ autoRunning'
     /\ (life.pc \in {"provider", "watcher"} /\ life'.pc = "startRejected") =>
          /\ ~autoRunning /\ ~autoRunning'
          /\ life'.emitted = <<>>
     /\ (life.pc = "provider" /\ setCall' # setCall /\ setCall'.thrown) =>
          life'.pc = "startRejected"
     /\ (life.pc = "watcher" /\ life' # life
           /\ wcall[life.call].pc = "rejected") =>
          life'.pc = "startRejected"]_vars

\* start() has rejected because the watch path failed its validation
C25_Witness ==
  /\ life.pc = "startRejected"
  /\ life.error = "Watch path does not exist"
  /\ ~autoRunning

\* C27: stop() is a no-op when the coordinator is not Running; when Running
\* it ends with isActive() false both when the watcher stops successfully
\* (emitting 'stopped') and when the watcher's stop fails, in which case
\* stop() rejects with the watcher's error.
C27_StopOutcomes ==
  [][/\ (LifeCallFree /\ ~autoRunning /\ life' # life
           /\ life'.pc \in {"stopping", "stopped", "stopRejected"}) =>
          /\ life'.pc = "stopped"
          /\ life'.emitted = <<>>
          /\ ~autoRunning'
          /\ UNCHANGED <<orchVars, autoProcessing, tf, delivered, watchVars>>
     /\ (life.pc = "stopping" /\ life' # life) =>
          /\ ~autoRunning'
          /\ IF wcall[life.call].pc = "resolved"
             THEN life'.pc = "stopped" /\ life'.emitted = <<"stopped">>
             ELSE /\ life'.pc = "stopRejected"
                  /\ life'.emitted = <<>>
                  /\ life'.error = wcall[life.call].error]_vars

\* stop() has rejected because the watcher could not be closed, and the
\* coordinator is not Running
C27_Witness ==
  /\ life.pc = "stopRejected"
  /\ life.error = "Failed to close the watcher"
  /\ ~autoRunning

\* C26: once translateFile has been accepted (coordinator Running and not
\* Busy) it never rejects: a file that is not the base-language file, the
\* absence of every target file and a failure of processFileChanges each
\* resolve to a result with success = false and the error message in errors;
\* in every case isTranslating() is false again when the call resolves.
C26_AcceptedNeverRejects ==
  [][\A j \in Inv :
       /\ (tf[j].pc = "idle" /\ autoRunning /\ ~autoProcessing) =>
            tf'[j].pc # "rejected"
       /\ tf[j].pc \notin {"idle", "rejected"} => tf'[j].pc # "rejected"
       /\ (tf[j].pc # "resolved" /\ tf'[j].pc = "resolved") =>
            /\ ~autoProcessing'
            /\ tf[j].pc = "idle" =>
                 /\ detectLanguageFromPath(tf'[j].filePath) # BaseLanguage
                 /\ ~tf'[j].result.success
                 /\ tf'[j].result.errors = <<"not a base language file">>
            /\ tf[j].pc = "listing" =>
                 /\ \A l \in Range(TargetLanguages) : ~files[l].exists
                 /\ ~tf'[j].result.success
                 /\ tf'[j].result.errors = <<"No target language files found">>
            /\ (tf[j].pc = "processing" /\ inv[j].pc = "rejected") =>
                 /\ ~tf'[j].result.success
                 /\ tf'[j].result.errors = <<inv[j].error>>]_vars

\* a translateFile call has resolved with the parse error of the base file
C26_Witness ==
  \E j \in Inv :
    /\ tf[j].pc = "resolved"
    /\ ~tf[j].result.success
    /\ tf[j].result.errors = <<"Failed to parse file">>
    /\ ~autoProcessing

\* C28: TranslationWatcher.start() rejects with 'Watcher is already running'
\* when the watcher is Watching and leaves it Watching with the same watch
\* handle; stop() on a Stopped watcher resolves without any effect and
\* without a 'stopped' observation.
C28_StartStopGuards ==
  [][\A c \in 1..MaxWatchCalls :
       (wcall[c].pc = "idle" /\ wcall'[c].pc # "idle") =>
         /\ (wcall'[c].op = "start" /\ isWatching) =>
              /\ wcall'[c].pc = "rejected"
              /\ wcall'[c].error = "Watcher is already running"
              /\ wcall'[c].emitted = <<>>
              /\ isWatching' /\ watcher' = watcher /\ handles' = handles
         /\ (wcall'[c].op = "stop" /\ ~isWatching) =>
              /\ wcall'[c].pc = "resolved"
              /\ wcall'[c].emitted = <<>>
              /\ UNCHANGED <<isWatching, watcher, handles, debounceTimers,
                             timers, emitted>>]_vars

\* start() was rejected on a watcher that is Watching
C28_Witness ==
  \E c \in 1..MaxWatchCalls :
    /\ wcall[c].op = "start"
    /\ wcall[c].pc = "rejected"
    /\ wcall[c].error = "Watcher is already running"
    /\ isWatching

\* C29: TranslationWatcher.start() on a watch path that does not exist or is
\* not a directory rejects with a descriptive error and the watcher remains
\* Stopped: the call sets no isWatching flag and creates no watch handle.
C29_InvalidWatchPath ==
  [][\A c \in 1..MaxWatchCalls :
       (wcall[c].pc = "validating" /\ wcall'[c].pc # "validating"
          /\ wcall'[c].path # "directory") =>
         /\ wcall'[c].pc = "rejected"
         /\ wcall'[c].error =
              (IF wcall'[c].path = "missing" THEN "Watch path does not exist"
               ELSE "Watch path must be a directory")
         /\ wcall'[c].emitted = <<>>
         /\ UNCHANGED <<isWatching, watcher, handles>>]_vars

\* start() was rejected for a path that is a file, and the watcher is
\* Stopped with no handle
C29_Witness ==
  \E c \in 1..MaxWatchCalls :
    /\ wcall[c].pc = "rejected"
    /\ wcall[c].path = "file"
    /\ ~isWatching /\ watcher = 0 /\ handles = <<>>

\* the key paths at which a tree holds a nested object
RECURSIVE ObjectPathsFrom(_, _, _)
ObjectPathsFrom(data, prefix, top) ==
  UNION {LET path == IF top THEN data[n].k ELSE prefix \o data[n].k
         IN IF data[n].v.t = "obj"
            THEN {path} \cup ObjectPathsFrom(data[n].v.o, path, FALSE)
            ELSE {} : n \in 1..Len(data)}

ObjectPaths(data) == ObjectPathsFrom(data, <<>>, TRUE)

\* the strings a tree holds at a leaf key path
ValuesAt(data, p) == {l.s : l \in {m \in Leaves(data) : m.key = p}}

\* C30: for trees base and updates in which no key path is a leaf in one
\* tree and a nested object in the other, mergeTranslations gives, for every
\* leaf key path p of either tree: under 'merge', the updates value if
\* updates has p and the base value otherwise; under 'preserve', the base
\* value if base has p and the updates value otherwise.
C30_MergeAndPreserve ==
  (/\ call.op = "mergeTranslations"
   /\ call.strategy \in {"merge", "preserve"}
   /\ LeafPaths(oldData) \cap ObjectPaths(newData) = {}
   /\ LeafPaths(newData) \cap ObjectPaths(oldData) = {}) =>
    /\ ~call.thrown
    /\ \A p \in LeafPaths(oldData) \cup LeafPaths(newData) :
         ValuesAt(call.merged, p) =
           IF call.strategy = "merge"
           THEN (IF p \in LeafPaths(newData) THEN ValuesAt(newData, p)
                 ELSE ValuesAt(oldData, p))
           ELSE (IF p \in LeafPaths(oldData) THEN ValuesAt(oldData, p)
                 ELSE ValuesAt(newData, p))

\* the values of a tree, at any depth, are strings and nested objects
RECURSIVE StringsAndObjects(_)
StringsAndObjects(data) ==
  \A n \in 1..Len(data) :
    /\ data[n].v.t \in {"str", "obj"}
    /\ data[n].v.t = "obj" => StringsAndObjects(data[n].v.o)

\* C30 under 'merge', for trees of strings and objects whose names are not
\* empty and hold no dot
C30_MergePlainTrees ==
  (/\ call.strategy = "merge"
   /\ PlainNames(oldData) /\ PlainNames(newData)
   /\ StringsAndObjects(oldData) /\ StringsAndObjects(newData)) =>
    C30_MergeAndPreserve

\* C30 for base trees that hold no nested object
C30_PreserveFlatBase ==
  (/\ call.strategy = "preserve"
   /\ PlainNames(oldData) /\ PlainNames(newData)
   /\ StringsAndObjects(oldData) /\ StringsAndObjects(newData)
   /\ ObjectPaths(oldData) = {}) =>
    C30_MergeAndPreserve

\* C31: for any tree and any key path k already present with a leaf value,
\* set(tree, k, get(tree, k)) leaves the tree unchanged.
C31_SetOfGetIsIdentity ==
  call.op = "getThenSet" => (~call.thrown /\ call.data = newData)

\* C31 for key paths without an empty segment
C31_SetOfGetNoEmptySegment ==
  (call.op = "getThenSet" /\ \A n \in 1..Len(call.key) : call.key[n] # "") =>
    C31_SetOfGetIsIdentity

\* the translateFile calls that have been accepted and have not resolved
ActiveRuns == {j \in Inv : tf[j].pc \in {"listing", "processing", "updating"}}

\* C32: at most one translateFile run is active at any time, for every
\* interleaving of manual translateFile calls and file-change observations:
\* the Busy flag is set exactly while a run is active, so it is cleared only
\* by the run that set it.
C32_AtMostOneRun ==
  /\ Cardinality(ActiveRuns) <= 1
  /\ autoProcessing <=> ActiveRuns # {}

\* a change of the base-language file was observed while a run was active,
\* and a run is active
C32_Witness ==
  /\ ActiveRuns # {}
  /\ \E n \in 1..Len(delivered) :
       /\ delivered[n].type = "change"
       /\ delivered[n].running /\ delivered[n].busy

\* the watch handles created and not closed
LiveHandles == {h \in DOMAIN handles : handles[h] # "closed"}

\* C33: a TranslationWatcher never holds more than one open watch handle: for
\* every interleaving of start() and stop() calls, at most one file-system
\* watcher exists that has been created and not closed.
C33_AtMostOneHandle == Cardinality(LiveHandles) <= 1

\* the batches and rate-limit pauses of invocation i in the order they
\* happened, over all its target files
RECURSIVE EventsFrom(_, _)
EventsFrom(runs, n) ==
  IF n > Len(runs) THEN <<>> ELSE runs[n].events \o EventsFrom(runs, n + 1)

EventsOf(i) == EventsFrom(inv[i].runs, 1)

\* C34: every batch executed in a processFileChanges invocation that is
\* followed by another batch in the same invocation is followed by a
\* rate-limit pause before that next batch starts, including when the next
\* batch belongs to the next target file.
C34_PauseBetweenBatches ==
  \A i \in Inv : \A n \in 1..(Len(EventsOf(i)) - 1) :
    EventsOf(i)[n].kind = "batch" => EventsOf(i)[n + 1].kind = "delay"

\* every response of the batches processFileChanges returned to call j
ResponsesOf(j) ==
  Flatten([b \in 1..Len(inv[j].batches) |-> inv[j].batches[b].responses], 1)

\* the failed responses of call j whose key got no translation for the language
FailedOnly(j) ==
  {n \in 1..Len(ResponsesOf(j)) :
     /\ ~ResponsesOf(j)[n].success
     /\ \A m \in 1..Len(ResponsesOf(j)) :
          (/\ ResponsesOf(j)[m].key = ResponsesOf(j)[n].key
           /\ ResponsesOf(j)[m].targetLanguage = ResponsesOf(j)[n].targetLanguage)
          => ~ResponsesOf(j)[m].success}

\* C35: translateFile resolves with success=true whenever processFileChanges
\* returns without throwing, even when every response in the returned batches
\* has success=false: failed requests are counted in totalTranslations, are
\* not listed in result.errors, and are not written to any target file.
C35_FailedResponsesStillSucceed ==
  [][\A j \in Inv :
       (/\ tf[j].pc \in {"processing", "updating"}
        /\ tf'[j].pc = "resolved"
        /\ inv[j].pc = "returned")
       => /\ tf'[j].result.success
          /\ tf'[j].result.errors = <<>>
          /\ tf'[j].result.totalTranslations = Len(ResponsesOf(j))
          /\ \A n \in FailedOnly(j) :
               LET lang == ResponsesOf(j)[n].targetLanguage
                   key == ResponsesOf(j)[n].key
               IN /\ files'[lang].exists = files[lang].exists
                  /\ files[lang].exists =>
                       parserGetNestedValue(files'[lang].data, key)
                         = parserGetNestedValue(files[lang].data, key)
          /\ (\A n \in 1..Len(ResponsesOf(j)) : ~ResponsesOf(j)[n].success)
               => files' = files]_vars

\* a translateFile call resolved with success=true and a failed request
\* counted, every response of its batches having failed
C35_Witness ==
  \E j \in Inv :
    /\ tf[j].pc = "resolved"
    /\ inv[j].pc = "returned"
    /\ tf[j].result.success
    /\ tf[j].result.totalTranslations > 0
    /\ tf[j].result.errors = <<>>
    /\ \A n \in 1..Len(ResponsesOf(j)) : ~ResponsesOf(j)[n].success

Dropped(e) == BaseLanguageChange(e) /\ (~e.running \/ e.busy)

\* C37: a base-language change observation that arrives while the coordinator
\* is Busy or Stopped is dropped: it starts no translateFile call, and a call
\* made later is a manual translateFile call (made while no observation is
\* delivered) or the call of a later observation that arrived while the
\* coordinator was Running and not Busy.
C37_DroppedNotRetried ==
  /\ [](\A n \in 1..Len(delivered) :
          Dropped(delivered[n]) => delivered[n].call = 0)
  /\ [][\A j \in Inv :
         (tf[j].pc = "idle" /\ tf'[j].pc # "idle") =>
           \/ delivered' = delivered /\ timers' = timers /\ emitted' = emitted
           \/ /\ Len(delivered') = Len(delivered) + 1
              /\ delivered'[Len(delivered')].call = j
              /\ BaseLanguageChange(delivered'[Len(delivered')])
              /\ ~Dropped(delivered'[Len(delivered')])]_vars

\* a change of the base file was dropped while a run was in progress and
\* another one while the coordinator was Stopped; one call was made in all
C37_Witness ==
  /\ \E n \in 1..Len(delivered) :
       Dropped(delivered[n]) /\ delivered[n].busy /\ delivered[n].running
  /\ \E n \in 1..Len(delivered) :
       Dropped(delivered[n]) /\ ~delivered[n].running
  /\ ~autoProcessing
  /\ \E j \in Inv : tf[j].pc = "resolved" /\ \A k \in Inv : k # j => tf[k].pc = "idle"

\* C38: in every reachable state of a TranslationOrchestrator, over all
\* interleavings of processFileChanges and stop(), getCurrentBatch() is
\* non-null only while isTranslating() is true.
C38_BatchOnlyWhileTranslating == currentBatch # 0 => isProcessing

\* the pending timers of one event type on one path
TimersOf(ts, type, p) == {t \in ts : t.type = type /\ t.filePath = p}

\* the timer a raw event has just set
NewTimer == CHOOSE t \in timers' : t.id = timerCount'

\* C39: debounce timers are independent per (eventType, filePath) key: a new
\* event cancels and restarts only the pending timer with the same type and
\* path and never a pending timer of another key, at most one timer is pending
\* per key at any time, and events of different types on one path each
\* produce their own observation.
C39_TimersPerKey ==
  /\ [](\A type \in EventTypes, p \in WatchedPaths :
          Cardinality(TimersOf(timers, type, p)) <= 1)
  /\ [][timerCount' = timerCount + 1 =>
          /\ TimersOf(timers', NewTimer.type, NewTimer.filePath) = {NewTimer}
          /\ NewTimer.remaining = debounceMs
          /\ \A type \in EventTypes, p \in WatchedPaths :
               <<type, p>> # <<NewTimer.type, NewTimer.filePath>> =>
                 TimersOf(timers', type, p) = TimersOf(timers, type, p)]_vars
  /\ [][\A t \in timers :
          (t \notin timers' /\ t.remaining = 0 /\ timerCount' = timerCount
             /\ emitted' # emitted) =>
            /\ Len(emitted') = Len(emitted) + 2
            /\ emitted'[Len(emitted) + 1].event = "fileChange"
            /\ emitted'[Len(emitted) + 1].data.type = t.type
            /\ emitted'[Len(emitted) + 1].data.filePath = t.filePath
            /\ timers' = timers \ {t}]_vars

\* a change and an unlink of en.json were both observed, the timer of the
\* change having been restarted once while the timer of the unlink was pending
C39_Witness ==
  /\ \E n, m \in 1..Len(emitted) :
       /\ emitted[n].event = "fileChange" /\ emitted[n].data.type = "change"
       /\ emitted[m].event = "fileChange" /\ emitted[m].data.type = "unlink"
       /\ emitted[n].data.filePath = emitted[m].data.filePath
  /\ raw[<<"change", PathOf("en")>>].n = 2
  /\ raw[<<"unlink", PathOf("en")>>].n = 1
  /\ timerCount = 3

\* C40: every accepted processFileChanges invocation eventually ends (it
\* returns its batches or rejects) and the orchestrator reaches Idle, for
\* every list of targets and keys, provided each file read and each
\* provider.translate call eventually completes, batchSize >= 1 and
\* retryAttempts is finite.
C40_InvocationsEnd ==
  \A i \in Inv :
    InFlight(i) ~> (inv[i].pc \in {"returned", "rejected"} /\ ~isProcessing)

\* an invocation has returned after more than one batch for each of its two
\* targets and a request that failed at its last attempt
C40_Witness ==
  \E i \in Inv :
    /\ inv[i].pc = "returned"
    /\ Len(inv[i].runs) = 2
    /\ \A n \in 1..2 : Len(BatchEventsOf(inv[i].runs[n])) >= 2
    /\ \E n \in 1..Len(inv[i].responses) : ~inv[i].responses[n].success
    /\ ~isProcessing

====
